---- MODULE Spec2Model ----
(***************************************************************************)
(* Verification model of the viterbo geometry/search stack:                *)
(*   - geom2::ordered::Poly2 (strict ordered 2D H-representation) and its  *)
(*     half-plane intersection hsi_ordered,                                *)
(*   - geom2::solvers::fixed_point_in_poly,                                *)
(*   - oriented_edge::dfs::DfsRunner (solve / recur).                      *)
(*                                                                         *)
(* Arithmetic is exact.  A unit normal is stored multiplied by 5, so that  *)
(* the twelve lattice directions of length 5 are the unit normals the      *)
(* model can hold; an offset c is stored multiplied by 5 as well, so the   *)
(* model pair (n, c) is the half-space  n.x <= c  of the code after both   *)
(* sides are multiplied by 5.  Points are homogeneous triples (x, y, w),   *)
(* w > 0, standing for (x/w, y/w); w = 0 marks a point with non-finite     *)
(* IEEE coordinates.                                                       *)
(***************************************************************************)
EXTENDS Integers, Sequences, FiniteSets, TLC

VARIABLES
  poly,        \* SpecPoly: the half-space list of the Poly2 under test
  ret,         \* SpecPoly: the value returned by the query
  last,        \* SpecOps history: the latest operation, its operands, the count
  g,           \* DfsRunner.g: the graph searched
  scfg,        \* DfsRunner.scfg
  best,        \* DfsRunner.best: the incumbent value
  best_cycle,  \* DfsRunner.best_cycle
  best_z,      \* DfsRunner.best_z
  with_fp,     \* the entry point running: solve_with_fp (TRUE) or solve (FALSE)
  stack,       \* DfsRunner.stack: the ridge path
  frames,      \* the call stack of recur: the State and loop position of each call,
               \* and the edges its loop has examined (history)
  s,           \* the loop variable of solve
  pc,          \* where solve stands: "loop", "enter", "edges", "done"
  result,      \* the value solve returned
  walk,        \* history: the edges followed by the calls on the call stack
  ev,          \* history: what the latest step did
  accepted,    \* history: the closed walk and the value that set the incumbent
  feasible,    \* history: some closure produced a fixed point
  started,     \* history: the start ridges solve has begun
  p4,          \* geom4: the Poly4 under test, its caches h and v
  pos4,        \* geom4: the position of the running loop
  acc4,        \* geom4: what the running function has collected so far
  out4,        \* geom4: the value returned
  params,      \* rand4: the MahlerProductParams handed to the generator
  gen,         \* rand4: what MahlerProductGenerator::new returned
  drawn        \* rand4: the values draw_polygon_radial samples with

polyVars == <<poly, ret, last>>

dfsVars == <<g, scfg, with_fp, best, best_cycle, best_z, stack, frames, s, pc, result,
             walk, ev, accepted, feasible, started>>

geom4Vars == <<p4, pos4, acc4, out4>>

randVars == <<params, gen, drawn>>

vars == <<polyVars, dfsVars, geom4Vars, randVars>>

-----------------------------------------------------------------------------
(* Bounds of the model *)

\* longest half-space list the Poly2 under test may grow to
MaxHs == 3

\* offsets (times 5) offered to insert_halfspace
Offsets == {-5, 0, 5, 10}

\* signed slack values (times 5) offered to halfspace_intersection_eps
EpsSet == {-10, 0, 5}

-----------------------------------------------------------------------------
(* Small helpers *)

Abs(x) == IF x < 0 THEN -x ELSE x

Min(a, b) == IF a < b THEN a ELSE b

Max(a, b) == IF a > b THEN a ELSE b

None == [some |-> FALSE]

\* f64::INFINITY as the offset of a half-space: an integer beyond every finite
\* quantity of the model, which the operators below treat by the IEEE rules.
\* Its negative stands for f64::NEG_INFINITY.
INFINITY == 1000000

IsInfOffset(c) == c = INFINITY \/ c = -INFINITY

\* IEEE values that are not finite are "+inf", "-inf" and "nan"; "fin" stands
\* for any finite value.  coef * c for a finite coef:
InfTerm(coef, c) ==
  IF ~IsInfOffset(c) THEN "fin"
  ELSE IF coef = 0 THEN "nan"
  ELSE IF (coef > 0) = (c > 0) THEN "+inf" ELSE "-inf"

\* coef * z for a finite coef and a non-finite z
NonFiniteTimes(coef, z) ==
  IF z = "nan" \/ coef = 0 THEN "nan"
  ELSE IF (coef > 0) = (z = "+inf") THEN "+inf" ELSE "-inf"

\* the IEEE sum
NonFinitePlus(u, v) ==
  IF u = "nan" \/ v = "nan" THEN "nan"
  ELSE IF u = "fin" THEN v
  ELSE IF v = "fin" THEN u
  ELSE IF u = v THEN u ELSE "nan"

Some(v) == [some |-> TRUE, val |-> v]

\* The twelve unit normals (times 5), in increasing order of atan2(n.y, n.x)
\* over (-pi, pi].
DirTable ==
  << <<-4, -3>>, <<-3, -4>>, <<0, -5>>, <<3, -4>>, <<4, -3>>, <<5, 0>>,
     <<4, 3>>, <<3, 4>>, <<0, 5>>, <<-3, 4>>, <<-4, 3>>, <<-5, 0>> >>

Dot(u, v) == u[1] * v[1] + u[2] * v[2]

Cross(u, v) == u[1] * v[2] - u[2] * v[1]

Perp(n) == <<-n[2], n[1]>>

-----------------------------------------------------------------------------
(* geom2/util.rs *)

\* The unit normal (-1.0, -0.0): equal to (-1.0, 0.0) as a vector, but with
\* atan2(-0.0, -1.0) = -pi where atan2(0.0, -1.0) = pi.  The third entry
\* marks the sign of the zero; Dot, Cross and Perp read the first two only.
NegZeroWest == <<-5, 0, -1>>

\* (n1 - n2).norm() < 1e-9
SameDirection(n1, n2) == n1[1] = n2[1] /\ n1[2] = n2[2]

\* atan2(n.y, n.x) of a unit normal, as its rank in DirTable; rank 0 is -pi.
angle_of(n) ==
  IF Len(n) = 3 THEN 0 ELSE CHOOSE i \in 1..Len(DirTable) : DirTable[i] = n

\* n / |n| and c / |n|; None for a zero normal.
canonicalize_unit(n, c) ==
  IF n = <<0, 0>> THEN None
  ELSE LET d == CHOOSE i \in 1..Len(DirTable) :
                   Cross(DirTable[i], n) = 0 /\ Dot(DirTable[i], n) > 0
       IN Some([n |-> IF Len(n) = 3 THEN NegZeroWest ELSE DirTable[d],
                c |-> IF IsInfOffset(c) THEN c
                      ELSE (25 * c) \div Dot(DirTable[d], n)])

-----------------------------------------------------------------------------
(* geom2/types.rs *)

Hs2(n, c) == [n |-> n, c |-> c]

\* A point is x/w, y/w with w > 0, or has w = 0 and two non-finite
\* coordinates x, y.  For such a point n.p <= c + eps holds when the sum n.p
\* is -inf, or is +inf and so is c.
SatisfiesNonFinite(h, zx, zy) ==
  LET d == NonFinitePlus(NonFiniteTimes(h.n[1], zx), NonFiniteTimes(h.n[2], zy))
  IN d = "-inf" \/ (d = "+inf" /\ h.c = INFINITY)

\* n.p <= c + eps
satisfies_eps(h, p, eps) ==
  IF p.w = 0 THEN SatisfiesNonFinite(h, p.x, p.y)
  ELSE IF IsInfOffset(h.c) THEN h.c > 0
  ELSE h.n[1] * p.x + h.n[2] * p.y <= (h.c + eps) * p.w

-----------------------------------------------------------------------------
(* geom2/ordered.rs *)

\* wrap_angle(a + PI) on ranks: the rank of the opposite direction.
wrap_angle_plus_pi(a) == IF a <= 6 THEN a + 6 ELSE a - 6

\* inv * (c1, c2) with inv = [n2.y, -n1.y; -n2.x, n1.x] / det; an infinite
\* offset makes both coordinates non-finite
line_intersection(h1, h2) ==
  LET det == Cross(h1.n, h2.n)
      sg == IF det > 0 THEN 1 ELSE -1
      sx == h1.c * h2.n[2] - h2.c * h1.n[2]
      sy == h1.n[1] * h2.c - h2.n[1] * h1.c
  IN IF det = 0 THEN None
     ELSE IF IsInfOffset(h1.c) \/ IsInfOffset(h2.c)
     THEN Some([x |-> NonFinitePlus(InfTerm(sg * h2.n[2], h1.c),
                                    InfTerm(-sg * h1.n[2], h2.c)),
                y |-> NonFinitePlus(InfTerm(-sg * h2.n[1], h1.c),
                                    InfTerm(sg * h1.n[1], h2.c)),
                w |-> 0])
     ELSE IF det > 0 THEN Some([x |-> sx, y |-> sy, w |-> det])
     ELSE Some([x |-> -sx, y |-> -sy, w |-> -det])

\* the binary search of insert_halfspace: first index (0-based) whose angle
\* exceeds key
RECURSIVE InsertSearch(_, _, _, _)
InsertSearch(hs, key, lo, hi) ==
  IF lo < hi
  THEN LET mid == (lo + hi) \div 2
       IN IF angle_of(hs[mid + 1].n) <= key
          THEN InsertSearch(hs, key, mid + 1, hi)
          ELSE InsertSearch(hs, key, lo, mid)
  ELSE lo

SetC(hs, i, c) == [hs EXCEPT ![i] = [@ EXCEPT !.c = c]]

InsertAt(hs, lo, h) == SubSeq(hs, 1, lo) \o <<h>> \o SubSeq(hs, lo + 1, Len(hs))

insert_halfspace(hs, h) ==
  LET cu == canonicalize_unit(h.n, h.c)
  IN IF ~cu.some THEN hs
     ELSE LET n == cu.val.n
              c == cu.val.c
              lo == InsertSearch(hs, angle_of(n), 0, Len(hs))
          IN IF lo > 0 /\ SameDirection(hs[lo].n, n)
             THEN (IF c < hs[lo].c THEN SetC(hs, lo, c) ELSE hs)
             ELSE IF lo < Len(hs) /\ SameDirection(hs[lo + 1].n, n)
             THEN (IF c < hs[lo + 1].c THEN SetC(hs, lo + 1, c) ELSE hs)
             ELSE InsertAt(hs, lo, Hs2(n, c))

Empty == [kind |-> "Empty", verts |-> <<>>]

Unbounded == [kind |-> "Unbounded", verts |-> <<>>]

Bounded(v) == [kind |-> "Bounded", verts |-> v]

\* the binary search of the contradiction check: first index (0-based) whose
\* angle is not below target
RECURSIVE AntipodeSearch(_, _, _, _)
AntipodeSearch(hs, target, lo, hi) ==
  IF lo < hi
  THEN LET mid == (lo + hi) \div 2
       IN IF angle_of(hs[mid + 1].n) < target
          THEN AntipodeSearch(hs, target, mid + 1, hi)
          ELSE AntipodeSearch(hs, target, lo, mid)
  ELSE lo

\* lines 204-225: some half-space has an opposite partner and the interval
\* test of the code reports a contradiction
FastContradiction(hs) ==
  \E i \in 1..Len(hs) :
    LET target == wrap_angle_plus_pi(angle_of(hs[i].n))
        lo == AntipodeSearch(hs, target, 0, Len(hs))
    IN /\ lo < Len(hs)
       /\ angle_of(hs[lo + 1].n) = target
       /\ Max(-hs[i].c, -hs[lo + 1].c) > Min(hs[i].c, hs[lo + 1].c)

PointOk(hs, i1, i2, h, eps) ==
  LET p == line_intersection(hs[i1], hs[i2])
  IN p.some /\ satisfies_eps(h, p.val, eps)

\* lines 231-240 / 253-262: pop from the back while the last two lines'
\* intersection is missing or violates h
RECURSIVE PopBack(_, _, _, _, _)
PopBack(hs, dq, h, eps, minLen) ==
  IF Len(dq) >= minLen
  THEN IF PointOk(hs, dq[Len(dq) - 1], dq[Len(dq)], h, eps)
       THEN dq
       ELSE PopBack(hs, SubSeq(dq, 1, Len(dq) - 1), h, eps, minLen)
  ELSE dq

\* lines 241-250 / 263-272: the same from the front
RECURSIVE PopFront(_, _, _, _, _)
PopFront(hs, dq, h, eps, minLen) ==
  IF Len(dq) >= minLen
  THEN IF PointOk(hs, dq[1], dq[2], h, eps)
       THEN dq
       ELSE PopFront(hs, Tail(dq), h, eps, minLen)
  ELSE dq

\* lines 230-252: the sweep over the half-spaces i..Len(hs)
RECURSIVE Sweep(_, _, _, _)
Sweep(hs, dq, i, eps) ==
  IF i > Len(hs) THEN dq
  ELSE LET d1 == PopBack(hs, dq, hs[i], eps, 2)
           d2 == PopFront(hs, d1, hs[i], eps, 2)
       IN Sweep(hs, Append(d2, i), i + 1, eps)

\* lines 253-272: the closing clean-up of both ends
Cleanup(hs, dq, eps) ==
  LET d1 == IF Len(dq) >= 3 THEN PopBack(hs, dq, hs[dq[1]], eps, 3) ELSE dq
  IN IF Len(d1) >= 3 THEN PopFront(hs, d1, hs[d1[Len(d1)]], eps, 3) ELSE d1

\* lines 279-294: the corner points of consecutive deque lines
Corners(hs, dq) ==
  [k \in 1..Len(dq) |->
     line_intersection(hs[dq[k]], hs[dq[(k % Len(dq)) + 1]])]

hsi_ordered(hs, eps) ==
  IF Len(hs) = 0 THEN Unbounded
  ELSE IF FastContradiction(hs) THEN Empty
  ELSE LET dq == Cleanup(hs, Sweep(hs, <<>>, 1, eps), eps)
       IN IF Len(dq) = 0 THEN Empty
          ELSE IF Len(dq) < 3 THEN Unbounded
          ELSE LET cs == Corners(hs, dq)
               IN IF \E k \in 1..Len(cs) : ~cs[k].some THEN Unbounded
                  ELSE Bounded([k \in 1..Len(cs) |-> cs[k].val])

halfspace_intersection_eps(hs, eps) == hsi_ordered(hs, eps)

halfspace_intersection(hs) == halfspace_intersection_eps(hs, 0)

is_empty_eps(hs, eps) == halfspace_intersection_eps(hs, eps).kind = "Empty"

contains_eps(hs, p, eps) == \A i \in 1..Len(hs) : satisfies_eps(hs[i], p, eps)

-----------------------------------------------------------------------------
(* The f64 values of the model: exact rationals n/d with d > 0, and with    *)
(* d = 0 the values f64::INFINITY (n > 0), f64::NEG_INFINITY (n < 0) and   *)
(* NaN (n = 0).                                                            *)

Rat(n, d) == IF d < 0 THEN [n |-> -n, d |-> -d] ELSE [n |-> n, d |-> d]

PosInf == [n |-> 1, d |-> 0]

NegInf == [n |-> -1, d |-> 0]

NaN == [n |-> 0, d |-> 0]

IsFinite(a) == a.d # 0

IsNaN(a) == a.d = 0 /\ a.n = 0

\* a < b, false when either is NaN
RLt(a, b) ==
  IF IsNaN(a) \/ IsNaN(b) THEN FALSE
  ELSE IF a.d = 0 /\ b.d = 0 THEN a.n < b.n
  ELSE IF a.d = 0 THEN a.n < 0
  ELSE IF b.d = 0 THEN b.n > 0
  ELSE a.n * b.d < b.n * a.d

\* a == b, false when either is NaN
REq(a, b) ==
  IF IsNaN(a) \/ IsNaN(b) THEN FALSE
  ELSE IF a.d = 0 \/ b.d = 0 THEN a.d = b.d /\ (a.n > 0) = (b.n > 0)
  ELSE a.n * b.d = b.n * a.d

\* f64::min and f64::max: a NaN operand is ignored
RMin(a, b) == IF IsNaN(a) THEN b ELSE IF RLt(b, a) THEN b ELSE a

RMax(a, b) == IF IsNaN(a) THEN b ELSE IF RLt(a, b) THEN b ELSE a

\* the f64 a non-finite IEEE value stands for
NonFiniteValue(v) ==
  IF v = "+inf" THEN PosInf ELSE IF v = "-inf" THEN NegInf ELSE NaN

-----------------------------------------------------------------------------
(* geom2/types.rs: tolerances, Affine2, Aff1 *)

\* GeomCfg::default().  Every quantity the model compares against a
\* tolerance is an exact rational on the model's lattice, so a tolerance of
\* 1e-12 or 1e-9 separates exactly the values that 0 separates.
eps_det == 0

eps_feas == 0

eps_tau == 0

Aff2(m, t) == [m |-> m, t |-> t]

Aff1(a, b) == [a |-> a, b |-> b]

\* matrices are <<m11, m12, m21, m22>>
Det(m) == m[1] * m[4] - m[2] * m[3]

Adj(m) == <<m[4], -m[2], -m[3], m[1]>>

MatVec(m, v) == <<m[1] * v[1] + m[2] * v[2], m[3] * v[1] + m[4] * v[2]>>

MatMul(p, q) ==
  <<p[1] * q[1] + p[2] * q[3], p[1] * q[2] + p[2] * q[4],
    p[3] * q[1] + p[4] * q[3], p[3] * q[2] + p[4] * q[4]>>

Transpose(m) == <<m[1], m[3], m[2], m[4]>>

Identity == <<1, 0, 0, 1>>

\* the point v / w
Pt(v, w) == IF w < 0 THEN [x |-> -v[1], y |-> -v[2], w |-> -w]
            ELSE [x |-> v[1], y |-> v[2], w |-> w]

\* Aff1::eval: a.z + b
eval(a, z) ==
  IF z.w = 0
  THEN NonFiniteValue(NonFinitePlus(NonFiniteTimes(a.a[1], z.x),
                                    NonFiniteTimes(a.a[2], z.y)))
  ELSE Rat(a.a[1] * z.x + a.a[2] * z.y + a.b * z.w, z.w)

-----------------------------------------------------------------------------
(* geom2/solvers.rs: fixed_point_in_poly *)

\* number of singular values of mat above eps_det
Rank(mat) ==
  IF Det(mat) # 0 THEN 2
  ELSE IF mat = <<0, 0, 0, 0>> THEN 0
  ELSE 1

\* lines 85-102: clip the parameter interval by one half-space after the
\* other; zp is the particular solution, dir the direction of the line
RECURSIVE ClipLine(_, _, _, _, _, _)
ClipLine(hs, i, zp, dir, lo, hi) ==
  IF i > Len(hs) THEN Some([lo |-> lo, hi |-> hi])
  ELSE LET h == hs[i]
           nd == Dot(h.n, dir)
           \* rhs = c - n.z_part, times zp.w
           rhs == h.c * zp.w - (h.n[1] * zp.x + h.n[2] * zp.y)
           q == Rat(rhs, zp.w * nd)
           hi1 == IF nd > eps_det THEN RMin(hi, q) ELSE hi
           lo1 == IF nd < -eps_det THEN RMax(lo, q) ELSE lo
       IN IF h.c = INFINITY THEN ClipLine(hs, i + 1, zp, dir, lo, hi)
          ELSE IF h.c = -INFINITY THEN None
          ELSE IF Abs(nd) <= eps_det /\ rhs < -eps_feas THEN None
          ELSE IF RLt(hi1, lo1) THEN None
          ELSE ClipLine(hs, i + 1, zp, dir, lo1, hi1)

\* lines 103-122: the parameter chosen on [lo, hi] by the sign of the slope
ChooseAlpha(slope, lo, hi) ==
  LET zero == Rat(0, 1)
      a0 == IF slope > eps_tau THEN lo
            ELSE IF slope < -eps_tau THEN hi
            ELSE RMin(RMax(zero, lo), hi)
  IN RMin(RMax(a0, lo), hi)

\* z_part + dir * alpha for a finite alpha
OnLine(zp, dir, alpha) ==
  Pt(<<zp.x * alpha.d + dir[1] * alpha.n * zp.w,
       zp.y * alpha.d + dir[2] * alpha.n * zp.w>>, zp.w * alpha.d)

\* One IEEE coordinate of z_part + dir * alpha for an infinite alpha:
\* 0 * inf is NaN, anything else is an infinity of the product's sign.
InfCoord(d, alpha) ==
  IF d = 0 THEN "nan" ELSE IF d * alpha.n > 0 THEN "+inf" ELSE "-inf"

\* lines 72-129: I - M has rank 1
FixedPointLine(psi, mat, c, a) ==
  LET f == mat[1] * mat[1] + mat[2] * mat[2] + mat[3] * mat[3] + mat[4] * mat[4]
      \* the least-norm solution of mat z = t
      zp == Pt(MatVec(Transpose(mat), psi.t), f)
      row == IF <<mat[1], mat[2]>> # <<0, 0>> THEN <<mat[1], mat[2]>>
             ELSE <<mat[3], mat[4]>>
      \* the null direction of mat
      dir == Perp(row)
      inRange == MatVec(mat, <<zp.x, zp.y>>) = <<psi.t[1] * zp.w, psi.t[2] * zp.w>>
      clip == ClipLine(c, 1, zp, dir, NegInf, PosInf)
  IN IF ~inRange THEN None
     ELSE IF ~clip.some THEN None
     ELSE LET alpha == ChooseAlpha(Dot(a.a, dir), clip.val.lo, clip.val.hi)
          IN IF IsFinite(alpha)
             THEN LET z == OnLine(zp, dir, alpha)
                  IN IF contains_eps(c, z, eps_feas)
                     THEN Some([finite |-> TRUE, z |-> z, val |-> eval(a, z)])
                     ELSE None
             ELSE LET z == [x |-> InfCoord(dir[1], alpha),
                            y |-> InfCoord(dir[2], alpha), w |-> 0]
                  IN IF contains_eps(c, z, eps_feas)
                     THEN Some([finite |-> FALSE, z |-> z, val |-> eval(a, z)])
                     ELSE None

\* lines 136-143: the first vertex of least value
RECURSIVE BestVertex(_, _, _, _)
BestVertex(verts, a, k, acc) ==
  IF k > Len(verts) THEN acc
  ELSE LET val == eval(a, verts[k])
       IN IF ~acc.some \/ RLt(val, acc.val.val)
          THEN BestVertex(verts, a, k + 1,
                          Some([finite |-> verts[k].w # 0, z |-> verts[k],
                                val |-> val]))
          ELSE BestVertex(verts, a, k + 1, acc)

fixed_point_in_poly(psi, c, a) ==
  LET mat == <<1 - psi.m[1], -psi.m[2], -psi.m[3], 1 - psi.m[4]>>
      rank == Rank(mat)
  IN IF rank = 2
     THEN LET z == Pt(MatVec(Adj(mat), psi.t), Det(mat))
          IN IF contains_eps(c, z, eps_feas)
             THEN Some([finite |-> TRUE, z |-> z, val |-> eval(a, z)])
             ELSE None
     ELSE IF rank = 1 THEN FixedPointLine(psi, mat, c, a)
     ELSE IF psi.t # <<0, 0>> THEN None
     ELSE LET r == halfspace_intersection(c)
          IN IF r.kind = "Bounded" THEN BestVertex(r.verts, a, 1, None)
             ELSE None

-----------------------------------------------------------------------------
(* geom2/ordered.rs: intersect, push_forward, with_cut; Aff1 composition *)

push_or_coalesce(out, n, c) ==
  IF Len(out) > 0 /\ SameDirection(out[Len(out)].n, n)
  THEN (IF c < out[Len(out)].c THEN SetC(out, Len(out), c) ELSE out)
  ELSE Append(out, Hs2(n, c))

\* lines 73-97: the two-pointer merge; i and j count the entries consumed
RECURSIVE Merge(_, _, _, _, _)
Merge(p, q, i, j, out) ==
  IF i < Len(p) /\ j < Len(q)
  THEN LET ai == angle_of(p[i + 1].n)
           bj == angle_of(q[j + 1].n)
       IN IF ai = bj
          THEN Merge(p, q, i + 1, j + 1,
                     push_or_coalesce(out, p[i + 1].n, Min(p[i + 1].c, q[j + 1].c)))
          ELSE IF ai < bj
          THEN Merge(p, q, i + 1, j, push_or_coalesce(out, p[i + 1].n, p[i + 1].c))
          ELSE Merge(p, q, i, j + 1, push_or_coalesce(out, q[j + 1].n, q[j + 1].c))
  ELSE IF i < Len(p)
  THEN Merge(p, q, i + 1, j, push_or_coalesce(out, p[i + 1].n, p[i + 1].c))
  ELSE IF j < Len(q)
  THEN Merge(p, q, i, j + 1, push_or_coalesce(out, q[j + 1].n, q[j + 1].c))
  ELSE out

intersect(p, q) == Merge(p, q, 0, 0, <<>>)

\* the stable sort by angle of push_forward (lines 125-129)
RECURSIVE SortInsert(_, _)
SortInsert(sorted, h) ==
  IF Len(sorted) = 0 THEN <<h>>
  ELSE IF angle_of(sorted[Len(sorted)].n) <= angle_of(h.n)
  THEN Append(sorted, h)
  ELSE Append(SortInsert(SubSeq(sorted, 1, Len(sorted) - 1), h),
              sorted[Len(sorted)])

RECURSIVE SortByAngle(_, _, _)
SortByAngle(tmp, k, sorted) ==
  IF k > Len(tmp) THEN sorted
  ELSE SortByAngle(tmp, k + 1, SortInsert(sorted, tmp[k]))

RECURSIVE CoalesceAll(_, _, _)
CoalesceAll(tmp, k, out) ==
  IF k > Len(tmp) THEN out
  ELSE CoalesceAll(tmp, k + 1, push_or_coalesce(out, tmp[k].n, tmp[k].c))

\* a push-forward that leaves out the translation
RECURSIVE LinearPartOnly(_, _, _, _)
LinearPartOnly(hs, f, k, tmp) ==
  IF k > Len(hs) THEN tmp
  ELSE LET det == Det(f.m)
           sg == IF det > 0 THEN 1 ELSE -1
           adj == Adj(f.m)
           v == <<hs[k].n[1] * adj[1] + hs[k].n[2] * adj[3],
                  hs[k].n[1] * adj[2] + hs[k].n[2] * adj[4]>>
           cu == canonicalize_unit(<<sg * v[1], sg * v[2]>>,
                                   IF IsInfOffset(hs[k].c) THEN hs[k].c
                                   ELSE sg * hs[k].c * det)
       IN LinearPartOnly(hs, f, k + 1, IF cu.some THEN Append(tmp, cu.val) ELSE tmp)

\* lines 117-124: n' = n M^-1 and c' = c + n'.t, canonicalised.  Both are
\* multiplied by |det M| first, which canonicalize_unit divides out again.
\* A zero component of n' is taken as +0.0.
RECURSIVE Transformed(_, _, _, _)
Transformed(hs, f, k, tmp) ==
  IF k > Len(hs) THEN tmp
  ELSE LET det == Det(f.m)
           sg == IF det > 0 THEN 1 ELSE -1
           adj == Adj(f.m)
           v == <<hs[k].n[1] * adj[1] + hs[k].n[2] * adj[3],
                  hs[k].n[1] * adj[2] + hs[k].n[2] * adj[4]>>
           cu == canonicalize_unit(<<sg * v[1], sg * v[2]>>,
                                   IF IsInfOffset(hs[k].c) THEN hs[k].c
                                   ELSE sg * (hs[k].c * det + Dot(v, f.t)))
       IN Transformed(hs, f, k + 1, IF cu.some THEN Append(tmp, cu.val) ELSE tmp)

push_forward(hs, f) ==
  IF Det(f.m) = 0 THEN None
  ELSE Some(CoalesceAll(SortByAngle(Transformed(hs, f, 1, <<>>), 1, <<>>), 1, <<>>))

with_cut(hs, cut) == insert_halfspace(hs, cut)

\* Affine2::inverse, with the common denominator det kept apart
inverse(phi) ==
  IF Det(phi.m) = 0 THEN None
  ELSE Some([m |-> Adj(phi.m), t |-> MatVec(Adj(phi.m), <<-phi.t[1], -phi.t[2]>>),
             den |-> Det(phi.m)])

\* A o phi^-1 = ((M^-1)^T a, a.t_inv + b).  The functionals the search is run
\* on keep the quotients integral.
compose_with_inv_affine2(a, phi) ==
  LET inv == inverse(phi)
  IN IF ~inv.some THEN None
     ELSE LET ta == MatVec(Transpose(inv.val.m), a.a)
          IN Some(Aff1(<<ta[1] \div inv.val.den, ta[2] \div inv.val.den>>,
                       Dot(a.a, inv.val.t) \div inv.val.den + a.b))

add(a1, a2) == Aff1(<<a1.a[1] + a2.a[1], a1.a[2] + a2.a[2]>>, a1.b + a2.b)

\* Half-space { A(z) <= best }: Hs2(a, best - b).  For a finite best both
\* sides are multiplied by its denominator; an infinite best gives an
\* infinite offset, and a NaN is never stored in best.
to_cut(a, bst) ==
  IF IsFinite(bst)
  THEN Hs2(<<bst.d * a.a[1], bst.d * a.a[2]>>, bst.n - a.b * bst.d)
  ELSE Hs2(a.a, IF bst.n > 0 THEN INFINITY ELSE -INFINITY)

-----------------------------------------------------------------------------
(* Specification SpecPoly: a Poly2 built from Poly2::default() by            *)
(* insert_halfspace and then queried once, by halfspace_intersection_eps   *)
(* or by fixed_point_in_poly.  The queries take &self and leave the        *)
(* polygon as it is; ret holds the value the query returned.               *)

\* normals offered to insert_halfspace: unit normals, two unnormalised
\* ones, the zero vector and (-1.0, -0.0)
InputNormals ==
  {DirTable[i] : i \in 1..Len(DirTable)}
    \cup {<<10, 0>>, <<0, -10>>, <<0, 0>>, NegZeroWest}

\* maps psi offered to fixed_point_in_poly: I - M of rank 2, 1 and 0
PsiSet ==
  {Aff2(m, t) : m \in {<<2, 0, 0, 2>>, <<0, -1, 1, 0>>, <<1, 0, 0, 2>>,
                       <<2, 1, 1, 2>>, Identity},
                t \in {<<0, 0>>, <<0, 1>>, <<1, 1>>}}

\* functionals A offered to fixed_point_in_poly
ActionSet == {Aff1(a, 0) : a \in {<<0, 0>>, <<1, 0>>, <<-1, -1>>}}

NoRet == [op |-> "none"]

\* no operation recorded
NoOp == [kind |-> "none", count |-> 0]

\* the variables of the search while no search is run
IdleDfs ==
  /\ g = <<>> /\ scfg = <<>> /\ best = <<>> /\ best_cycle = <<>>
  /\ best_z = <<>> /\ with_fp = <<>>
  /\ stack = <<>> /\ frames = <<>> /\ s = 0 /\ pc = "idle" /\ result = <<>>
  /\ walk = <<>> /\ ev = <<>> /\ accepted = <<>> /\ feasible = FALSE
  /\ started = {}

\* the variables of the 4D engine while it is not used
IdleGeom4 == p4 = <<>> /\ pos4 = <<>> /\ acc4 = <<>> /\ out4 = <<>>

\* the variables of the generator while it is not used
IdleRand == params = <<>> /\ gen = <<>> /\ drawn = <<>>

InitPoly ==
  /\ poly = <<>>
  /\ ret = NoRet
  /\ last = NoOp
  /\ IdleDfs
  /\ IdleGeom4
  /\ IdleRand

InsertHalfspace ==
  \E n \in InputNormals, c \in Offsets :
    LET out == insert_halfspace(poly, Hs2(n, c))
    IN /\ ret = NoRet
       /\ Len(out) <= MaxHs
       /\ poly' = out
       /\ ret' = NoRet
       /\ UNCHANGED <<last, dfsVars, randVars, geom4Vars>>

HalfspaceIntersectionEps ==
  \E eps \in EpsSet :
    /\ ret = NoRet
    /\ ret' = [op |-> "hsi", eps |-> eps,
               res |-> halfspace_intersection_eps(poly, eps)]
    /\ UNCHANGED <<poly, last, dfsVars, randVars, geom4Vars>>

FixedPointInPoly ==
  \E psi \in PsiSet, a \in ActionSet :
    /\ ret = NoRet
    /\ ret' = [op |-> "fp", psi |-> psi, a |-> a,
               res |-> fixed_point_in_poly(psi, poly, a)]
    /\ UNCHANGED <<poly, last, dfsVars, randVars, geom4Vars>>

NextPoly == InsertHalfspace \/ HalfspaceIntersectionEps \/ FixedPointInPoly

SpecPoly == InitPoly /\ [][NextPoly]_vars

-----------------------------------------------------------------------------
(* Specification SpecOps: a Poly2 built from Poly2::default() by up to      *)
(* MaxSteps operations insert_halfspace, intersect, push_forward and       *)
(* with_cut; last records the latest operation and the polygon it was      *)
(* applied to.                                                             *)

\* number of operations in a sequence
MaxSteps == 3

\* normals offered to insert_halfspace
OpNormals ==
  {<<0, -5>>, <<5, 0>>, <<3, 4>>, <<-4, 3>>, <<-5, 0>>, NegZeroWest,
   <<0, 10>>, <<0, 0>>}

\* offsets (times 5) offered to insert_halfspace
OpOffsets == {-5, 5, 10}

\* the polygons `other` offered to intersect: the strip |y| <= 2 and the
\* triangle -y <= 1, 0.8x + 0.6y <= 1, -x <= 1
OtherPolys ==
  { << Hs2(<<0, -5>>, 10), Hs2(<<0, 5>>, 10) >>,
    << Hs2(<<0, -5>>, 5), Hs2(<<4, 3>>, 5), Hs2(<<-5, 0>>, 5) >> }

\* the maps offered to push_forward: a quarter turn, a half turn with a
\* translation, a scaling with a translation, a reflection, and two
\* singular maps
MapSet ==
  { Aff2(<<0, -1, 1, 0>>, <<0, 0>>), Aff2(<<-1, 0, 0, -1>>, <<1, 0>>),
    Aff2(<<2, 0, 0, 2>>, <<0, 1>>), Aff2(<<1, 0, 0, -1>>, <<0, 0>>),
    Aff2(<<1, 0, 0, 0>>, <<0, 0>>), Aff2(<<1, 2, 2, 4>>, <<1, 0>>) }

\* the cuts offered to with_cut: 1.6 y <= 1.6, an infinite cut and a cut
\* with a zero normal
CutSet ==
  { Hs2(<<0, 8>>, 8), Hs2(<<-3, -4>>, INFINITY), Hs2(<<0, 0>>, 5) }

InitOps == InitPoly

Recorded(kind, arg) ==
  [kind |-> kind, before |-> poly, arg |-> arg, count |-> last.count + 1]

OpInsertHalfspace ==
  \E n \in OpNormals, c \in OpOffsets :
    /\ last.count < MaxSteps
    /\ poly' = insert_halfspace(poly, Hs2(n, c))
    /\ last' = Recorded("insert", Hs2(n, c))
    /\ UNCHANGED <<ret, dfsVars, randVars, geom4Vars>>

OpIntersect ==
  \E other \in OtherPolys :
    /\ last.count < MaxSteps
    /\ poly' = intersect(poly, other)
    /\ last' = Recorded("intersect", other)
    /\ UNCHANGED <<ret, dfsVars, randVars, geom4Vars>>

\* push_forward returns None and there is no new polygon, or it returns Some
OpPushForward ==
  \E f \in MapSet :
    LET out == push_forward(poly, f)
    IN /\ last.count < MaxSteps
       /\ poly' = IF out.some THEN out.val ELSE poly
       /\ last' = [Recorded("push_forward", f) EXCEPT !.kind =
                     IF out.some THEN "push_forward" ELSE "push_forward_none"]
       /\ UNCHANGED <<ret, dfsVars, randVars, geom4Vars>>

OpWithCut ==
  \E cut \in CutSet :
    /\ last.count < MaxSteps
    /\ poly' = with_cut(poly, cut)
    /\ last' = Recorded("with_cut", cut)
    /\ UNCHANGED <<ret, dfsVars, randVars, geom4Vars>>

NextOps == OpInsertHalfspace \/ OpIntersect \/ OpPushForward \/ OpWithCut

SpecOps == InitOps /\ [][NextOps]_vars

-----------------------------------------------------------------------------
(* oriented_edge/types.rs and the graphs the search is run on.             *)
(* Ridge and facet identifiers are counted from 1.  Rotations are in       *)
(* tenths (of pi), so the budget 2.0 is 20.                                *)

rotation_budget == 20

SearchCfg(prune) == [use_rotation_prune |-> prune, rotation_budget |-> rotation_budget]

\* the square [-1, 1]^2 of the repository's search tests
UnitBox ==
  << Hs2(<<0, -5>>, 5), Hs2(<<5, 0>>, 5), Hs2(<<0, 5>>, 5), Hs2(<<-5, 0>>, 5) >>

\* the triangle with corners (2, -1), (1/5, 7/5), (-3, -1)
Triangle ==
  << Hs2(<<0, -5>>, 5), Hs2(<<4, 3>>, 5), Hs2(<<-3, 4>>, 5) >>

\* the square [2, 3] x [-1, 1], which misses both
FarBox ==
  << Hs2(<<0, -5>>, 5), Hs2(<<5, 0>>, 15), Hs2(<<0, 5>>, 5), Hs2(<<-5, 0>>, -10) >>

\* ridge polygons the graphs are drawn from
RidgePolys == {UnitBox, Triangle}

\* far: the edge's domain is FarBox instead of the polygon of its ridge
EdgeKind(m, t, far, a, b, rot) ==
  [map_ij |-> Aff2(m, t), far |-> far, action_inc |-> Aff1(a, b),
   rotation_inc |-> rot]

HalfTurn == EdgeKind(<<-1, 0, 0, -1>>, <<0, 0>>, FALSE, <<0, 0>>, 0, 8)

OffRidge == EdgeKind(Identity, <<0, 0>>, TRUE, <<0, 0>>, 0, 0)

\* per-edge data the graphs are drawn from, with a constant action increment
EdgeKinds ==
  { EdgeKind(Identity, <<0, 0>>, FALSE, <<0, 0>>, 0, 0),    \* identity step
    EdgeKind(Identity, <<0, 0>>, FALSE, <<0, 0>>, 1, 8),    \* action 1
    EdgeKind(Identity, <<1, 0>>, FALSE, <<0, 0>>, 1, 0),    \* translation
    HalfTurn,                                               \* rotation 0.8
    OffRidge,                                               \* empty domain
    EdgeKind(<<1, 0, 0, 0>>, <<0, 0>>, FALSE, <<0, 0>>, 0, 0) } \* singular

\* The action increments with a gradient: 1 - 3x - 4y on the first edge and
\* 8y on the second, so that the gradient of every partial sum along a walk
\* has one of the directions of DirTable.
EdgeKindsAt(k) ==
  EdgeKinds \cup
    (IF k = 1 THEN {EdgeKind(Identity, <<0, 0>>, FALSE, <<-3, -4>>, 1, 0)}
     ELSE IF k = 2 THEN {EdgeKind(Identity, <<0, 0>>, FALSE, <<0, 8>>, 0, 0)}
     ELSE {})

\* from, to of the four edges: 1->2, 2->1, 2->3, 3->1
EdgeEnds == << <<1, 2>>, <<2, 1>>, <<2, 3>>, <<3, 1>> >>

\* facet labels of the four edges: all different, or the first two alike
FacetLabelings == { <<1, 2, 3, 4>>, <<1, 1, 2, 3>> }

\* the out-edges of each ridge in the order build_graph pushes them
\* (build.rs line 213), before the final sort
Adjacency == << <<1>>, <<2, 3>>, <<4>> >>

NumRidges == Len(Adjacency)

NumFacets == Len(EdgeEnds)

\* build.rs lines 194-200: the lower bound of the action increment over the
\* domain of an edge, the least value at a vertex, or -inf when the domain
\* is not reported Bounded
RECURSIVE FoldMin(_, _, _, _)
FoldMin(verts, a, k, acc) ==
  IF k > Len(verts) THEN acc
  ELSE FoldMin(verts, a, k + 1, RMin(acc, eval(a, verts[k])))

lb_action(dom, a) ==
  LET r == halfspace_intersection(dom)
  IN IF r.kind = "Bounded" THEN FoldMin(r.verts, a, 1, PosInf) ELSE NegInf

\* where a stable sort puts edge e in the sorted list out: before the first
\* entry that partial_cmp reports Greater than e
RECURSIVE SortedPosition(_, _, _, _)
SortedPosition(edges, out, e, i) ==
  IF i > Len(out) THEN i
  ELSE IF RLt(edges[e].lb_action, edges[out[i]].lb_action) THEN i
  ELSE SortedPosition(edges, out, e, i + 1)

RECURSIVE SortFrom(_, _, _, _)
SortFrom(edges, out, k, sorted) ==
  IF k > Len(out) THEN sorted
  ELSE LET i == SortedPosition(edges, sorted, out[k], 1)
       IN SortFrom(edges, out, k + 1,
                   SubSeq(sorted, 1, i - 1) \o <<out[k]>>
                     \o SubSeq(sorted, i, Len(sorted)))

\* an adjacency list left in the order its edges were pushed
PushedOrder(edges, out) == out

\* build.rs lines 218-225: out.sort_by(partial_cmp of lb_action, Equal when
\* the values do not compare); sort_by is stable
sort_by(edges, out) == SortFrom(edges, out, 1, <<>>)

Graph(kinds, fl, q) ==
  LET dom(k) == IF kinds[k].far THEN FarBox ELSE q
      edges == [k \in 1..Len(EdgeEnds) |->
                  [from |-> EdgeEnds[k][1], to |-> EdgeEnds[k][2],
                   facet |-> fl[k],
                   dom_in |-> dom(k),
                   map_ij |-> kinds[k].map_ij,
                   action_inc |-> kinds[k].action_inc,
                   rotation_inc |-> kinds[k].rotation_inc,
                   lb_action |-> lb_action(dom(k), kinds[k].action_inc)]]
  IN [ ridges |-> [r \in 1..NumRidges |-> [poly |-> q]],
       edges |-> edges,
       adj |-> [r \in 1..NumRidges |-> sort_by(edges, Adjacency[r])],
       num_facets |-> NumFacets ]

-----------------------------------------------------------------------------
(* oriented_edge/dfs.rs: DfsRunner *)

\* the State solve hands to recur for start ridge r (lines 67-81)
State0(r) ==
  [start |-> r, cur |-> r,
   facets_seen |-> [f \in 1..g.num_facets |-> FALSE],
   candidate |-> g.ridges[r].poly,
   action |-> Aff1(<<0, 0>>, 0),
   rho |-> 0,
   phi_start_to_current |-> Aff2(Identity, <<0, 0>>)]

\* a search that leaves the ridge path as it is when it descends
DescendWithoutPush(stk, r) == stk

\* line 284: self.stack.push(e.to)
PushRidge(stk, r) == Append(stk, r)

\* a search without the visited-facet test
NoFacetTest(state, e) == FALSE

\* line 220
FacetSeen(state, e) == state.facets_seen[e.facet]

\* a search that marks no facet
LeaveUnmarked(seen, f) == seen

\* lines 258-259
MarkSeen(seen, f) == [seen EXCEPT ![f] = TRUE]

\* a search that never prunes by rotation
NoRotationTest(cfg, rho1) == FALSE

\* line 236
RotationPruned(cfg, rho1) == cfg.use_rotation_prune /\ rho1 > cfg.rotation_budget

\* lines 209-212: the least action over the vertices
RECURSIVE CurLb(_, _, _, _)
CurLb(verts, a, k, acc) ==
  IF k > Len(verts) THEN acc
  ELSE CurLb(verts, a, k + 1, RMin(acc, eval(a, verts[k])))

\* lines 208-216: the bound that ends a call before its loop
TopPruned(state, bst) ==
  LET r == halfspace_intersection(state.candidate)
  IN r.kind = "Bounded" /\ ~RLt(CurLb(r.verts, state.action, 1, PosInf), bst)

\* a search that takes every fixed point as the new incumbent
AnyFixedPointImproves(fp, bst) == fp.some

\* line 277: val < self.best
Improves(fp, bst) == fp.some /\ RLt(fp.val.val, bst)

\* lines 254-268
NextState(state, e, c2, a1, rho1) ==
  [start |-> state.start, cur |-> e.to,
   facets_seen |-> MarkSeen(state.facets_seen, e.facet),
   candidate |-> c2,
   action |-> a1,
   rho |-> rho1,
   phi_start_to_current |->
     Aff2(MatMul(e.map_ij.m, state.phi_start_to_current.m),
          LET mt == MatVec(e.map_ij.m, state.phi_start_to_current.t)
          IN <<mt[1] + e.map_ij.t[1], mt[2] + e.map_ij.t[2]>>)]

\* lines 269-286: the edge closes the cycle, or the search goes on from e.to
Closing(state, e, next) ==
  IF e.to = state.start
  THEN [tag |-> "close", next |-> next,
        fp |-> fixed_point_in_poly(next.phi_start_to_current, next.candidate,
                                   next.action)]
  ELSE [tag |-> "descend", next |-> next]

\* lines 251-268: c2 is the image cut by the incumbent
AfterCut(state, e, c2, a1, rho1) ==
  IF is_empty_eps(c2, eps_feas) THEN [tag |-> "empty_cut"]
  ELSE Closing(state, e, NextState(state, e, c2, a1, rho1))

\* lines 249-250
WithAction(state, e, c1, a1, rho1, bst) ==
  AfterCut(state, e, with_cut(c1, to_cut(a1, bst)), a1, rho1)

\* lines 230-248: c1 is the push-forward of the domain, a_pull and a_edge the
\* two pulled-back functionals
AfterPush(state, e, cfg, bst, c1, rho1, a_pull, a_edge) ==
  IF ~c1.some THEN [tag |-> "not_invertible"]
  ELSE IF RotationPruned(cfg, rho1) THEN [tag |-> "rotation"]
  ELSE IF ~a_pull.some \/ ~a_edge.some THEN [tag |-> "not_invertible"]
  ELSE WithAction(state, e, c1.val, add(a_pull.val, a_edge.val), rho1, bst)

\* lines 223-229: c_dom is the candidate cut by the edge's domain
AfterDomain(state, e, cfg, bst, c_dom) ==
  IF is_empty_eps(c_dom, eps_feas) THEN [tag |-> "empty_dom"]
  ELSE AfterPush(state, e, cfg, bst,
                 push_forward(c_dom, e.map_ij),
                 state.rho + e.rotation_inc,
                 compose_with_inv_affine2(state.action, e.map_ij),
                 compose_with_inv_affine2(e.action_inc, e.map_ij))

\* lines 219-283: what one pass of the loop body does with edge e
EdgeOutcome(state, e, cfg, bst) ==
  IF FacetSeen(state, e) THEN [tag |-> "seen"]
  ELSE AfterDomain(state, e, cfg, bst, intersect(state.candidate, e.dom_in))

Top == frames[Len(frames)]

Front(q) == SubSeq(q, 1, Len(q) - 1)

OutEdges == g.adj[Top.st.cur]

EdgeIdx == OutEdges[Top.k]

Edge == g.edges[EdgeIdx]

Outcome == EdgeOutcome(Top.st, Edge, scfg, best)

AtEdge == pc = "edges" /\ Top.k <= Len(OutEdges)

\* `continue`: the loop of the running call moves to its next edge; the
\* field examined is history, the edges the loop has taken so far
Continue ==
  [frames EXCEPT ![Len(frames)].k = @ + 1,
                 ![Len(frames)].examined = Append(@, EdgeIdx)]

Init ==
  /\ poly = <<>> /\ ret = NoRet /\ last = NoOp
  /\ IdleGeom4
  /\ IdleRand
  /\ \E k1 \in EdgeKindsAt(1), k2 \in EdgeKindsAt(2), k3 \in EdgeKindsAt(3),
        k4 \in EdgeKindsAt(4),
        fl \in FacetLabelings, q \in RidgePolys :
          g = Graph(<<k1, k2, k3, k4>>, fl, q)
  /\ scfg \in {SearchCfg(TRUE), SearchCfg(FALSE)}
  /\ best = PosInf
  /\ best_cycle = <<>>
  /\ best_z = None
  /\ with_fp = FALSE
  /\ stack = <<>>
  /\ frames = <<>>
  /\ s = 1
  /\ pc = "loop"
  /\ result = None
  /\ walk = <<>>
  /\ ev = [kind |-> "new"]
  /\ accepted = [walk |-> <<>>]
  /\ feasible = FALSE
  /\ started = {}

\* solve, lines 65-83: the next start ridge
StartRidge ==
  /\ pc = "loop" /\ s <= Len(g.ridges)
  /\ stack' = Append(stack, s)
  /\ frames' = <<[st |-> State0(s), k |-> 1, examined |-> <<>>]>>
  /\ pc' = "enter"
  /\ ev' = [kind |-> "start", ridge |-> s]
  /\ started' = started \cup {s}
  /\ UNCHANGED <<polyVars, geom4Vars, randVars, g, scfg, with_fp, best, best_cycle,
                 best_z, s, result, walk,
                 accepted, feasible>>

\* a return that leaves the ridge of the finished call on the path
ReturnWithoutPop(kind) ==
  /\ frames' = Front(frames)
  /\ IF Len(frames) = 1
     THEN /\ stack' = <<>>
          /\ s' = s + 1
          /\ pc' = "loop"
          /\ walk' = walk
     ELSE /\ stack' = stack
          /\ s' = s
          /\ pc' = "edges"
          /\ walk' = Front(walk)
  /\ ev' = [kind |-> kind]
  /\ UNCHANGED <<polyVars, geom4Vars, randVars, g, scfg, with_fp, best, best_cycle,
                 best_z, result, accepted,
                 feasible, started>>

\* the running call returns: to its caller (lines 285-286), or to solve
\* (lines 83-84)
Return(kind) ==
  /\ frames' = Front(frames)
  /\ IF Len(frames) = 1
     THEN /\ stack' = <<>>
          /\ s' = s + 1
          /\ pc' = "loop"
          /\ walk' = walk
     ELSE /\ stack' = Front(stack)
          /\ s' = s
          /\ pc' = "edges"
          /\ walk' = Front(walk)
  /\ ev' = [kind |-> kind]
  /\ UNCHANGED <<polyVars, geom4Vars, randVars, g, scfg, with_fp, best, best_cycle,
                 best_z, result, accepted,
                 feasible, started>>

\* recur, lines 208-216
EnterPrune == pc = "enter" /\ TopPruned(Top.st, best) /\ Return("pruned")

EnterLoop ==
  /\ pc = "enter" /\ ~TopPruned(Top.st, best)
  /\ pc' = "edges"
  /\ ev' = [kind |-> "enter"]
  /\ UNCHANGED <<polyVars, geom4Vars, randVars, g, scfg, with_fp, best, best_cycle,
                 best_z, stack, frames, s, result,
                 walk, accepted, feasible, started>>

\* an abort that also drops the ridge path
AbortClearingPath(tag) ==
  /\ frames' = Continue
  /\ stack' = <<>>
  /\ ev' = [kind |-> "abort", why |-> tag, edge |-> EdgeIdx]
  /\ UNCHANGED <<polyVars, geom4Vars, randVars, g, scfg, with_fp, best, best_cycle,
                 best_z, s, pc, result,
                 walk, accepted, feasible, started>>

\* an edge that is passed over: `continue` with nothing else changed
Abort(tag) ==
  /\ frames' = Continue
  /\ ev' = [kind |-> "abort", why |-> tag, edge |-> EdgeIdx]
  /\ UNCHANGED <<polyVars, geom4Vars, randVars, g, scfg, with_fp, best, best_cycle,
                 best_z, stack, s, pc, result,
                 walk, accepted, feasible, started>>

\* lines 220-222
SkipVisitedFacet(o) == o.tag = "seen" /\ Abort("seen")

\* lines 223-229
AbortEmptyDomain(o) == o.tag = "empty_dom" /\ Abort("empty_dom")

\* lines 230-234 and 239-248
AbortNotInvertible(o) == o.tag = "not_invertible" /\ Abort("not_invertible")

\* lines 235-238
AbortRotation(o) == o.tag = "rotation" /\ Abort("rotation")

\* lines 249-253
AbortEmptyCut(o) == o.tag = "empty_cut" /\ Abort("empty_cut")

\* a mutation of StoreZ: the fixed point is not stored
DropZ(old, z) == old

\* recur_fp, line 196: self.best_z = Some(z)
StoreZ(old, z) == Some(z)

\* solve_with_fp, line 117: unwrap of a None aborts the call
Panicked == [some |-> FALSE, panic |-> TRUE]

\* lines 269-283 (recur) and 185-199 (recur_fp): the edge closes the cycle and
\* the fixed point improves
CloseCycleAccept(o) ==
  /\ o.tag = "close" /\ Improves(o.fp, best)
  /\ best' = o.fp.val.val
  /\ best_cycle' = stack
  /\ best_z' = IF with_fp THEN StoreZ(best_z, o.fp.val.z) ELSE best_z
  /\ frames' = Continue
  /\ ev' = [kind |-> "accept", edge |-> EdgeIdx, fp |-> o.fp, rho |-> o.next.rho,
            old |-> best, st |-> o.next]
  /\ accepted' = [walk |-> Append(walk, EdgeIdx), val |-> o.fp.val.val,
                  z |-> o.fp.val.z]
  /\ feasible' = TRUE
  /\ UNCHANGED <<polyVars, geom4Vars, randVars, g, scfg, with_fp, stack, s, pc, result, walk,
                 started>>

\* the fixed point exists and does not improve
CloseCycleReject(o) ==
  /\ o.tag = "close" /\ o.fp.some /\ ~Improves(o.fp, best)
  /\ frames' = Continue
  /\ ev' = [kind |-> "reject", edge |-> EdgeIdx, fp |-> o.fp]
  /\ feasible' = TRUE
  /\ UNCHANGED <<polyVars, geom4Vars, randVars, g, scfg, with_fp, best, best_cycle,
                 best_z, stack, s, pc, result,
                 walk, accepted, started>>

\* fixed_point_in_poly returned None
CloseCycleFail(o) ==
  /\ o.tag = "close" /\ ~o.fp.some
  /\ frames' = Continue
  /\ ev' = [kind |-> "abort", why |-> "no_fixed_point", edge |-> EdgeIdx]
  /\ UNCHANGED <<polyVars, geom4Vars, randVars, g, scfg, with_fp, best, best_cycle,
                 best_z, stack, s, pc, result,
                 walk, accepted, feasible, started>>

\* lines 284-285: push the target ridge and call recur
Descend(o) ==
  /\ o.tag = "descend"
  /\ stack' = PushRidge(stack, Edge.to)
  /\ frames' = Append(Continue, [st |-> o.next, k |-> 1, examined |-> <<>>])
  /\ pc' = "enter"
  /\ walk' = Append(walk, EdgeIdx)
  /\ ev' = [kind |-> "descend", edge |-> EdgeIdx]
  /\ UNCHANGED <<polyVars, geom4Vars, randVars, g, scfg, with_fp, best, best_cycle,
                 best_z, s, result, accepted,
                 feasible, started>>

\* lines 219-287: one pass of the loop over the out-edges
EdgeStep ==
  /\ AtEdge
  /\ \E o \in {Outcome} :
       \/ SkipVisitedFacet(o) \/ AbortEmptyDomain(o) \/ AbortNotInvertible(o)
       \/ AbortRotation(o) \/ AbortEmptyCut(o)
       \/ CloseCycleAccept(o) \/ CloseCycleReject(o) \/ CloseCycleFail(o)
       \/ Descend(o)

\* the loop over the out-edges is over
LoopEnd == pc = "edges" /\ Top.k > Len(OutEdges) /\ Return("exhausted")

\* solve, lines 86-90
Finish ==
  /\ pc = "loop" /\ s > Len(g.ridges)
  /\ result' = IF ~IsFinite(best) THEN None
               ELSE IF ~with_fp THEN Some([value |-> best, cycle |-> best_cycle])
               ELSE IF best_z.some
                    THEN Some([value |-> best, cycle |-> best_cycle, z |-> best_z.val])
                    ELSE Panicked
  /\ pc' = "done"
  /\ ev' = [kind |-> "finish"]
  /\ UNCHANGED <<polyVars, geom4Vars, randVars, g, scfg, with_fp, best, best_cycle,
                 best_z, stack, frames, s, walk,
                 accepted, feasible, started>>

Next == StartRidge \/ EnterPrune \/ EnterLoop \/ EdgeStep \/ LoopEnd \/ Finish

Spec == Init /\ [][Next]_vars

-----------------------------------------------------------------------------
(* Reference geometry the claims are stated against *)

Shifted(hs, eps) == [i \in 1..Len(hs) |-> Hs2(hs[i].n, hs[i].c + eps)]

\* Some point satisfies every half-space enlarged by eps.  A non-empty
\* intersection of half-planes either has a corner or contains a whole line,
\* and then all normals are parallel.
Feasible(hs, eps) ==
  LET sh == Shifted(hs, eps)
      I == 1..Len(hs)
  IN \/ \E i, j \in I :
          LET p == line_intersection(sh[i], sh[j])
          IN p.some /\ contains_eps(sh, p.val, 0)
     \/ /\ \A i, j \in I : Cross(hs[i].n, hs[j].n) = 0
        /\ \A i, j \in I : Dot(hs[i].n, hs[j].n) < 0 => sh[i].c + sh[j].c >= 0

\* The region has no direction of recession.
RegionBounded(hs) ==
  /\ Len(hs) > 0
  /\ \A i \in 1..Len(hs) : \A sg \in {-1, 1} :
       \E j \in 1..Len(hs) : sg * Dot(hs[j].n, Perp(hs[i].n)) > 0

\* Orientation of the triangle p, q, r: positive when counter-clockwise.
Orient(p, q, r) ==
  p.x * (q.y * r.w - q.w * r.y) - p.y * (q.x * r.w - q.w * r.x)
    + p.w * (q.x * r.y - q.y * r.x)

CounterClockwise(vs) ==
  LET m == Len(vs)
      nxt(k) == (k % m) + 1
  IN /\ \A k \in 1..m : Orient(vs[k], vs[nxt(k)], vs[nxt(nxt(k))]) >= 0
     /\ \E k \in 1..m : Orient(vs[k], vs[nxt(k)], vs[nxt(nxt(k))]) > 0

\* z = M z + t for the homogeneous point z
IsFixedPoint(psi, z) ==
  LET mz == MatVec(psi.m, <<z.x, z.y>>)
  IN /\ mz[1] + psi.t[1] * z.w = z.x
     /\ mz[2] + psi.t[2] * z.w = z.y

-----------------------------------------------------------------------------
(* Claims about dfs_solve (Spec).  recur_fp differs from recur only in     *)
(* storing the fixed point next to the incumbent, so the actions above     *)
(* stand for both.                                                         *)

\* the facet labels of the edges of a walk
FacetsOf(w) == [i \in 1..Len(w) |-> g.edges[w[i]].facet]

Distinct(f) == \A i, j \in 1..Len(f) : i # j => f[i] # f[j]

\* C1: along every walk explored from any start ridge each facet label is
\* traversed at most once: the visited-facet set of every call holds exactly
\* the facets of the edges followed to reach it, an edge that closes a cycle
\* has a facet outside that set, and every accepted cycle uses pairwise
\* distinct facets.
C1_FacetsTraversedOnce ==
  /\ pc \in {"enter", "edges"} =>
       /\ Len(walk) = Len(frames) - 1
       /\ Distinct(FacetsOf(walk))
       /\ \A i \in 1..Len(frames) : \A f \in 1..NumFacets :
            frames[i].st.facets_seen[f] <=>
              \E k \in 1..(i - 1) : FacetsOf(walk)[k] = f
  /\ ev.kind \in {"accept", "reject"} =>
       \A k \in 1..Len(walk) : FacetsOf(walk)[k] # g.edges[ev.edge].facet
  /\ Distinct(FacetsOf(accepted.walk))

\* a cycle through all three ridges is accepted in a graph whose first two
\* edges carry the same facet
C1_Witness ==
  /\ ev.kind = "accept"
  /\ Len(accepted.walk) = 3
  /\ g.edges[1].facet = g.edges[2].facet

\* C2: the incumbent value never increases during a solve; value and cycle
\* change only at a cycle closure whose fixed-point value is strictly less
\* than the current incumbent, and a closure with an equal or larger value
\* leaves both untouched.
C2_IncumbentMonotone ==
  [][ /\ ~RLt(best, best')
      /\ (best' # best \/ best_cycle' # best_cycle) =>
           /\ ev'.kind = "accept"
           /\ ev'.fp.some
           /\ RLt(ev'.fp.val.val, best)
           /\ best' = ev'.fp.val.val
      /\ ev'.kind = "reject" =>
           /\ ~RLt(ev'.fp.val.val, best)
           /\ best' = best
           /\ best_cycle' = best_cycle ]_vars

\* C2, in full: the incumbent value never increases, and value and cycle
\* change only at a cycle closure whose fixed point is feasible (a point of
\* the plane inside the closing candidate polygon that the composed map
\* fixes) and has a value strictly less than the current incumbent.
C2_ChangesOnlyAtFeasibleImprovement ==
  [][ /\ ~RLt(best, best')
      /\ (best' # best \/ best_cycle' # best_cycle) =>
           /\ ev'.kind = "accept"
           /\ RLt(ev'.fp.val.val, best)
           /\ ev'.fp.val.finite
           /\ contains_eps(ev'.st.candidate, ev'.fp.val.z, eps_feas)
           /\ IsFixedPoint(ev'.st.phi_start_to_current, ev'.fp.val.z) ]_vars

\* a closure improves on an incumbent that an earlier closure had set
C2_Witness == ev.kind = "accept" /\ IsFinite(ev.old)

\* C3: dfs_solve returns None only if no cycle closure ever produced a
\* fixed point, and it returns Some whenever a closure was accepted.
C3_NoneOnlyWithoutClosure ==
  pc = "done" =>
    /\ ~result.some => ~feasible
    /\ accepted.walk # <<>> => result.some

\* The same with only the second half: an accepted closure gives Some.
C3_AcceptedGivesSome == (pc = "done" /\ accepted.walk # <<>>) => result.some

\* the graph of the rotation test: the cycle 1 -> 2 -> 3 -> 1 of three edges
\* with rotation 0.8 each, and no other way back to a start ridge
RotationCycle ==
  g = Graph(<<HalfTurn, OffRidge, HalfTurn, HalfTurn>>, <<1, 2, 3, 4>>, UnitBox)

C5_AbortIsLocal ==
  /\ [][ ev'.kind = "abort" =>
           /\ best' = best /\ best_cycle' = best_cycle
           /\ stack' = stack
           /\ frames' = Continue
           /\ pc' = "edges" /\ s' = s ]_vars
  /\ [](pc = "done" => started = 1..NumRidges)

\* an edge is aborted on an empty incumbent cut, below the start ridge and
\* after a closure has set the incumbent
C5_Witness ==
  /\ ev.kind = "abort" /\ ev.why = "empty_cut"
  /\ IsFinite(best) /\ Len(stack) >= 2

\* C6: when the solver returns Some, the returned cycle is the ridge path
\* of the closed walk whose closure produced the returned value: the start
\* ridge first, then every ridge in traversal order, the start ridge not
\* repeated at the end and appearing nowhere else.
C6_CycleIsRidgePath ==
  (pc = "done" /\ result.some) =>
    LET cyc == result.val.cycle
        w == accepted.walk
    IN /\ Len(cyc) = Len(w) /\ Len(w) >= 1
       /\ \A i \in 1..Len(w) : cyc[i] = g.edges[w[i]].from
       /\ \A i \in 1..(Len(w) - 1) : cyc[i + 1] = g.edges[w[i]].to
       /\ g.edges[w[Len(w)]].to = cyc[1]
       /\ \A i \in 2..Len(cyc) : cyc[i] # cyc[1]
       /\ result.val.value = accepted.val

\* a cycle through two ridges is returned
C6_Witness == pc = "done" /\ result.some /\ Len(result.val.cycle) = 2

-----------------------------------------------------------------------------
(* Claims about halfspace_intersection_eps (SpecPoly) *)

\* C7: for every eps >= 0, a verdict Empty from halfspace_intersection_eps
\* means that no point satisfies all half-spaces of the polygon.
C7_EmptyVerdictSound ==
  (ret.op = "hsi" /\ ret.eps >= 0 /\ ret.res.kind = "Empty")
    => ~Feasible(poly, 0)

\* C8: for every eps < 0 the half-spaces are evaluated shrunk by |eps|: a
\* non-Empty verdict implies the true region is non-empty, and the verdict
\* is Empty whenever the shrunken half-spaces have no common point.
C8_NegativeEpsShrinks ==
  (ret.op = "hsi" /\ ret.eps < 0)
    => /\ ret.res.kind # "Empty" => Feasible(poly, 0)
       /\ ~Feasible(poly, ret.eps) => ret.res.kind = "Empty"

\* C9: with eps = 0 the classification is exact: Empty exactly when the
\* half-spaces have no common point, Bounded exactly when the region is
\* non-empty and bounded, with corner points of the region in
\* counter-clockwise order, and Unbounded otherwise.
C9_ClassificationExact ==
  (ret.op = "hsi" /\ ret.eps = 0)
    => /\ ret.res.kind = "Empty" <=> ~Feasible(poly, 0)
       /\ ret.res.kind = "Bounded" <=> (Feasible(poly, 0) /\ RegionBounded(poly))
       /\ ret.res.kind = "Bounded" =>
            /\ \A k \in 1..Len(ret.res.verts) :
                 contains_eps(poly, ret.res.verts[k], 0)
            /\ CounterClockwise(ret.res.verts)

-----------------------------------------------------------------------------
(* Claims about fixed_point_in_poly (SpecPoly) *)

\* C10: whenever fixed_point_in_poly returns Some((z, val)), z satisfies
\* every half-space of C within eps_feas, z is a fixed point of psi, and
\* val equals A(z).
C10_FixedPointSound ==
  (ret.op = "fp" /\ ret.res.some)
    => /\ ret.res.val.finite
       /\ contains_eps(poly, ret.res.val.z, eps_feas)
       /\ IsFixedPoint(ret.psi, ret.res.val.z)
       /\ REq(ret.res.val.val, eval(ret.a, ret.res.val.z))

\* The same for the results whose z is a point of the plane (violated too:
\* the rank-0 branch returns a corner reported by hsi_ordered, which need not
\* lie in C).
FixedPointFiniteSound ==
  (ret.op = "fp" /\ ret.res.some /\ ret.res.val.finite)
    => /\ contains_eps(poly, ret.res.val.z, eps_feas)
       /\ IsFixedPoint(ret.psi, ret.res.val.z)
       /\ REq(ret.res.val.val, eval(ret.a, ret.res.val.z))

-----------------------------------------------------------------------------
(* The fixed points of psi inside C, computed from the equation            *)
(* (I - M) z = t and the half-spaces of C alone                            *)

FixedMat(psi) == <<1 - psi.m[1], -psi.m[2], -psi.m[3], 1 - psi.m[4]>>

\* I - M of rank 1: a row that is not zero, as the line row.z = t_row
FixedRow(psi) ==
  LET mat == FixedMat(psi)
  IN IF <<mat[1], mat[2]>> # <<0, 0>> THEN Hs2(<<mat[1], mat[2]>>, psi.t[1])
     ELSE Hs2(<<mat[3], mat[4]>>, psi.t[2])

\* I - M of rank 1: t lies in the range of I - M
FixedLineExists(psi) ==
  LET mat == FixedMat(psi)
  IN mat[1] * psi.t[2] = mat[3] * psi.t[1] /\ mat[2] * psi.t[2] = mat[4] * psi.t[1]

\* the foot of the line row.z = t_row
FixedLineFoot(psi) ==
  LET l == FixedRow(psi)
  IN Pt(<<l.n[1] * l.c, l.n[2] * l.c>>, Dot(l.n, l.n))

\* Fixed points of psi in C among which every value of an affine functional
\* that is attained on the fixed points in C as a minimum is attained: the
\* unique fixed point (rank 2), the ends of the fixed line clipped to C
\* (rank 1, or its foot when C does not clip it), the corners of C (rank 0).
ExtremeFixedPoints(psi, hs) ==
  LET mat == FixedMat(psi)
      I == 1..Len(hs)
  IN IF Rank(mat) = 2
     THEN {z \in {Pt(MatVec(Adj(mat), psi.t), Det(mat))} : contains_eps(hs, z, 0)}
     ELSE IF Rank(mat) = 1
     THEN IF ~FixedLineExists(psi) THEN {}
          ELSE LET cross == {line_intersection(hs[i], FixedRow(psi)) : i \in I}
               IN {p.val : p \in {q \in cross : q.some /\ contains_eps(hs, q.val, 0)}}
                  \cup {z \in {FixedLineFoot(psi)} :
                          /\ \A i \in I : Cross(hs[i].n, FixedRow(psi).n) = 0
                          /\ contains_eps(hs, z, 0)}
     ELSE IF psi.t # <<0, 0>> THEN {}
     ELSE LET cross == {line_intersection(hs[i], hs[j]) : i, j \in I}
          IN {p.val : p \in {q \in cross : q.some /\ contains_eps(hs, q.val, 0)}}

\* some fixed point of psi lies in C
FixedPointExistsIn(psi, hs) ==
  IF Rank(FixedMat(psi)) = 0 THEN psi.t = <<0, 0>> /\ Feasible(hs, 0)
  ELSE ExtremeFixedPoints(psi, hs) # {}

-----------------------------------------------------------------------------
(* Further claims about fixed_point_in_poly (SpecPoly) *)

\* C11: fixed_point_in_poly returns None only when no fixed point of psi
\* lies in C, and whenever fixed points of psi exist in C it returns one
\* whose value of A is least among them.
C11_NoneOnlyWhenInfeasible ==
  ret.op = "fp" =>
    /\ ~ret.res.some => ~FixedPointExistsIn(ret.psi, poly)
    /\ FixedPointExistsIn(ret.psi, poly) =>
         /\ ret.res.some
         /\ \A p \in ExtremeFixedPoints(ret.psi, poly) :
              ~RLt(eval(ret.a, p), ret.res.val.val)

\* The same for polygons C that are bounded.
FixedPointFoundInBounded ==
  (ret.op = "fp" /\ RegionBounded(poly)) => C11_NoneOnlyWhenInfeasible

\* The same for maps psi whose I - M has rank 2 or 1.
FixedPointFoundOnLine ==
  (ret.op = "fp" /\ Rank(FixedMat(ret.psi)) # 0) => C11_NoneOnlyWhenInfeasible

-----------------------------------------------------------------------------
(* Claims about the invariants of Poly2 (SpecOps) *)

UnitNormals(hs) == \A i \in 1..Len(hs) : Dot(hs[i].n, hs[i].n) = 25

SortedByAngle(hs) ==
  \A i, j \in 1..Len(hs) : i < j => angle_of(hs[i].n) <= angle_of(hs[j].n)

NoRepeatedDirection(hs) ==
  \A i, j \in 1..Len(hs) : i # j => ~SameDirection(hs[i].n, hs[j].n)

\* C12: after any sequence of insert_halfspace, intersect, push_forward and
\* with_cut from the empty Poly2, the half-space list has only unit normals,
\* is sorted by non-decreasing normal angle, and holds no two entries with
\* the same direction.
C12_StrictInvariants ==
  UnitNormals(poly) /\ SortedByAngle(poly) /\ NoRepeatedDirection(poly)

\* The part of C12 that holds: unit normals, sorted by angle, and no two
\* entries with the same angle.
UnitSortedDistinctAngles ==
  /\ UnitNormals(poly)
  /\ \A i, j \in 1..Len(poly) : i < j => angle_of(poly[i].n) < angle_of(poly[j].n)

\* the half-spaces an insert or an intersect was given, unit-normalised
SuppliedTo(op) ==
  {op.before[i] : i \in 1..Len(op.before)}
    \cup IF op.kind = "intersect" THEN {op.arg[i] : i \in 1..Len(op.arg)}
         ELSE LET cu == canonicalize_unit(op.arg.n, op.arg.c)
              IN IF cu.some THEN {cu.val} ELSE {}

\* the least offset supplied for the direction n
LeastOffset(supplied, n) ==
  LET cs == {x.c : x \in {y \in supplied : SameDirection(y.n, n)}}
  IN CHOOSE c \in cs : \A d \in cs : c <= d

\* every direction supplied appears exactly once in hs, with the least
\* offset supplied for it, and hs has no other direction
MostRestrictivePerDirection(hs, supplied) ==
  /\ \A x \in supplied :
       /\ Cardinality({i \in 1..Len(hs) : SameDirection(hs[i].n, x.n)}) = 1
       /\ \A i \in 1..Len(hs) :
            SameDirection(hs[i].n, x.n) => hs[i].c = LeastOffset(supplied, x.n)
  /\ \A i \in 1..Len(hs) : \E x \in supplied : SameDirection(hs[i].n, x.n)

\* the insert was of a half-space parallel to one already in the list
ParallelInsert(op) ==
  /\ op.kind = "insert"
  /\ LET cu == canonicalize_unit(op.arg.n, op.arg.c)
     IN cu.some /\ \E i \in 1..Len(op.before) :
                     SameDirection(op.before[i].n, cu.val.n)

\* C13: after insert_halfspace or intersect each direction present in the
\* inputs appears exactly once in the result and carries the minimum of the
\* unit-normalised offsets supplied for it, and inserting a half-space
\* parallel to an existing one never lengthens the list.
C13_MostRestrictiveOffsetKept ==
  last.kind \in {"insert", "intersect"} =>
    /\ MostRestrictivePerDirection(poly, SuppliedTo(last))
    /\ ParallelInsert(last) => Len(poly) <= Len(last.before)

\* no operand holds the normal (-1.0, -0.0)
NoNegativeZero(op) == \A x \in SuppliedTo(op) : Len(x.n) = 2

\* C13 for operands without the normal (-1.0, -0.0)
MostRestrictiveOffsetKeptPositiveZero ==
  (last.kind \in {"insert", "intersect"} /\ NoNegativeZero(last)) =>
    C13_MostRestrictiveOffsetKept

-----------------------------------------------------------------------------
(* Claims about push_forward (SpecOps) *)

\* side of the square of grid points the image is probed at
GridSide == 3

\* the points (i/2, j/2) of the square
GridPoints ==
  {[x |-> i, y |-> j, w |-> 2] : i, j \in (-2 * GridSide)..(2 * GridSide)}

\* the corner points of hs: intersections of two of its lines with finite
\* offsets
CornerPoints(hs) ==
  LET fin == {k \in 1..Len(hs) : ~IsInfOffset(hs[k].c)}
      cross == {line_intersection(hs[i], hs[j]) : i, j \in fin}
  IN {p.val : p \in {q \in cross : q.some}}

\* the foot of each line of hs with a finite offset
FootPoints(hs) ==
  {Pt(<<hs[i].n[1] * hs[i].c, hs[i].n[2] * hs[i].c>>, 25) :
     i \in {k \in 1..Len(hs) : ~IsInfOffset(hs[k].c)}}

\* f(p) = M p + t
ImagePoint(f, p) ==
  LET mp == MatVec(f.m, <<p.x, p.y>>)
  IN Pt(<<mp[1] + f.t[1] * p.w, mp[2] + f.t[2] * p.w>>, p.w)

\* M^-1 (y - t)
PreimagePoint(f, y) ==
  Pt(MatVec(Adj(f.m), <<y.x - f.t[1] * y.w, y.y - f.t[2] * y.w>>),
     Det(f.m) * y.w)

\* the points the image is compared at: the grid, the corners and feet of
\* the result, and the images of the corners and feet of the original
ProbePoints(f, before, after) ==
  GridPoints \cup CornerPoints(after) \cup FootPoints(after)
    \cup {ImagePoint(f, p) : p \in CornerPoints(before) \cup FootPoints(before)}

\* C14: push_forward returns None exactly when the linear part is singular,
\* and for an invertible linear part a point y satisfies every half-space of
\* the result if and only if M^-1 (y - t) satisfies every half-space of the
\* original.
C14_PushForwardExactImage ==
  /\ last.kind = "push_forward_none" => Det(last.arg.m) = 0
  /\ last.kind = "push_forward" =>
       /\ Det(last.arg.m) # 0
       /\ \A y \in ProbePoints(last.arg, last.before, poly) :
            contains_eps(poly, y, 0)
              <=> contains_eps(last.before, PreimagePoint(last.arg, y), 0)

\* a polygon with a corner is pushed forward by a map with a translation
\* and determinant other than 1
C14_Witness ==
  /\ last.kind = "push_forward"
  /\ last.arg.t # <<0, 0>> /\ Det(last.arg.m) = 4
  /\ Len(last.before) >= 2
  /\ \E y \in CornerPoints(poly) : contains_eps(poly, y, 0)

\* push_forward returns None for a singular map
PushForwardOfSingularMap ==
  last.kind = "push_forward_none" /\ Len(last.before) >= 1

-----------------------------------------------------------------------------
(* Claims about the adjacency order (Spec) *)

\* a <= b as the test of the sorted adjacency compares lower bounds
RLe(a, b) == RLt(a, b) \/ REq(a, b)

\* the lower bounds along a list of edge indices do not decrease
NonDecreasingLb(out) ==
  \A i \in 1..(Len(out) - 1) :
    RLe(g.edges[out[i]].lb_action, g.edges[out[i + 1]].lb_action)

\* C15: the adjacency list of every ridge is ordered by non-decreasing
\* lb_action, and the edges a call of recur has examined are the first
\* entries of the adjacency list of its ridge, in the order of that list.
C15_SortedAdjacencyFollowed ==
  /\ \A r \in 1..Len(g.adj) : NonDecreasingLb(g.adj[r])
  /\ \A d \in 1..Len(frames) :
       LET f == frames[d]
       IN f.examined = SubSeq(g.adj[f.st.cur], 1, Len(f.examined))

\* a call has examined both out-edges of its ridge, whose lower bounds
\* differ and which the sort has put in the other order than they were
\* pushed in
C15_Witness ==
  \E d \in 1..Len(frames) :
    LET f == frames[d]
        out == g.adj[f.st.cur]
    IN /\ Len(f.examined) = 2
       /\ out # Adjacency[f.st.cur]
       /\ RLt(g.edges[out[1]].lb_action, g.edges[out[2]].lb_action)

-----------------------------------------------------------------------------
(* geom4: the 4D polytope engine.  A vector is a 4-tuple of integers.  A    *)
(* point is [x, w] with w > 0 and stands for x/w, reduced to lowest terms. *)
(* A half-space [n, c] stands for the half-space n.x <= c of the code      *)
(* after division by |n|: the code stores unit normals, the model the same *)
(* half-space with an integer normal.  Tolerances are modelled as 0.       *)
(* Indices are counted from 1.                                             *)

Dot4(u, v) == u[1] * v[1] + u[2] * v[2] + u[3] * v[3] + u[4] * v[4]

Sub4(u, v) == <<u[1] - v[1], u[2] - v[2], u[3] - v[3], u[4] - v[4]>>

Scale4(k, u) == <<k * u[1], k * u[2], k * u[3], k * u[4]>>

Zero4 == <<0, 0, 0, 0>>

RECURSIVE Gcd(_, _)
Gcd(a, b) == IF b = 0 THEN a ELSE Gcd(b, a % b)

Gcd4(u) == Gcd(Gcd(Abs(u[1]), Abs(u[2])), Gcd(Abs(u[3]), Abs(u[4])))

\* exact division of an integer by a positive divisor of it
DivExact(a, d) == IF a >= 0 THEN a \div d ELSE -((-a) \div d)

\* the vector u divided by the greatest common divisor of its entries
Reduce4(u) ==
  IF u = Zero4 THEN u
  ELSE LET d == Gcd4(u)
       IN <<DivExact(u[1], d), DivExact(u[2], d), DivExact(u[3], d),
            DivExact(u[4], d)>>

\* the point x/w, w # 0, in lowest terms with a positive denominator
Point4(x, w) ==
  LET d == Gcd(Gcd4(x), Abs(w))
      sg == IF w < 0 THEN -1 ELSE 1
  IN [x |-> <<DivExact(sg * x[1], d), DivExact(sg * x[2], d),
              DivExact(sg * x[3], d), DivExact(sg * x[4], d)>>,
      w |-> DivExact(sg * w, d)]

\* types.rs Hs4::new
Hs4(n, c) == [n |-> n, c |-> c]

\* types.rs Hs4::satisfies: n.p <= c + FEAS_EPS
satisfies(h, p) == Dot4(h.n, p.x) <= h.c * p.w

\* types.rs Hs4::normalized: None for a zero normal; the unit normal n/|n|
\* is kept as the integer normal in lowest terms when the offset allows it
normalized(h) ==
  IF h.n = Zero4 THEN None
  ELSE LET d == Gcd(Gcd4(h.n), Abs(h.c))
       IN Some(Hs4(<<DivExact(h.n[1], d), DivExact(h.n[2], d),
                     DivExact(h.n[3], d), DivExact(h.n[4], d)>>,
                   DivExact(h.c, d)))

\* two half-spaces with the same unit normal and the same offset
SamePlane(h1, h2) ==
  /\ \A i, j \in 1..4 : h1.n[i] * h2.n[j] = h1.n[j] * h2.n[i]
  /\ Dot4(h1.n, h2.n) > 0
  /\ \A i \in 1..4 : h1.c * h2.n[i] = h2.c * h1.n[i]

\* util.rs combinations(items, 4) in lexicographic order: the first
\* combination of 1..n and the one after c, <<>> when there is none
FirstComb(n) == IF n < 4 THEN <<>> ELSE <<1, 2, 3, 4>>

NextComb(c, n) ==
  IF c[4] < n THEN <<c[1], c[2], c[3], c[4] + 1>>
  ELSE IF c[3] < n - 1 THEN <<c[1], c[2], c[3] + 1, c[3] + 2>>
  ELSE IF c[2] < n - 2 THEN <<c[1], c[2] + 1, c[2] + 2, c[2] + 3>>
  ELSE IF c[1] < n - 3 THEN <<c[1] + 1, c[1] + 2, c[1] + 3, c[1] + 4>>
  ELSE <<>>

\* convert.rs lines 110-114
det3(m) ==
  m[1][1] * (m[2][2] * m[3][3] - m[2][3] * m[3][2])
    - m[1][2] * (m[2][1] * m[3][3] - m[2][3] * m[3][1])
    + m[1][3] * (m[2][1] * m[3][2] - m[2][2] * m[3][1])

\* the 3x3 matrix left of three rows of length 4 when column k is removed
Minor(rows, k) ==
  [i \in 1..3 |-> [j \in 1..3 |-> rows[i][IF j < k THEN j ELSE j + 1]]]

\* convert.rs lines 90-108: n_k = (-1)^k det(A_k)
nullspace_vector_3x4(rows) ==
  <<det3(Minor(rows, 1)), -det3(Minor(rows, 2)),
    det3(Minor(rows, 3)), -det3(Minor(rows, 4))>>

\* the differences pts[k] - pts[1], k = 2, 3, 4, each scaled by a positive
\* factor to the shortest integer vector
EdgeRows(pts) ==
  LET row(k) == Reduce4(Sub4(Scale4(pts[1].w, pts[k].x),
                             Scale4(pts[k].w, pts[1].x)))
  IN <<row(2), row(3), row(4)>>

\* convert.rs lines 75-88: the plane through four points, None when the
\* cofactor vector has norm 0; c = |n.p1|
supporting_plane_from4(pts) ==
  LET n == Reduce4(nullspace_vector_3x4(EdgeRows(pts)))
  IN IF n = Zero4 THEN None
     ELSE normalized(Hs4(Scale4(pts[1].w, n), Abs(Dot4(n, pts[1].x))))

\* convert.rs lines 51-71: one pass of the loop of v_to_halfspaces over the
\* combinations; the set seen holds the keys of the planes in out
VToHalfspacesPass(vs, comb, out) ==
  LET pl == supporting_plane_from4(<<vs[comb[1]], vs[comb[2]],
                                     vs[comb[3]], vs[comb[4]]>>)
  IN IF ~pl.some THEN out
     ELSE IF \E i \in 1..Len(vs) : ~satisfies(pl.val, vs[i]) THEN out
     ELSE IF \E i \in 1..Len(out) : SamePlane(out[i], pl.val) THEN out
     ELSE Append(out, pl.val)

\* the determinant of a 4x4 matrix, by its first row
Det4(m) == Dot4(m[1], nullspace_vector_3x4(<<m[2], m[3], m[4]>>))

ReplaceCol(m, k, b) ==
  [i \in 1..4 |-> [j \in 1..4 |-> IF j = k THEN b[i] ELSE m[i][j]]]

\* convert.rs lines 19-36: one pass of the loop of h_to_vertices: the point
\* where four planes meet, kept when every half-space holds at it
HToVerticesPass(hs, comb, out) ==
  LET a == <<hs[comb[1]].n, hs[comb[2]].n, hs[comb[3]].n, hs[comb[4]].n>>
      b == <<hs[comb[1]].c, hs[comb[2]].c, hs[comb[3]].c, hs[comb[4]].c>>
      d == Det4(a)
      x == Point4(<<Det4(ReplaceCol(a, 1, b)), Det4(ReplaceCol(a, 2, b)),
                    Det4(ReplaceCol(a, 3, b)), Det4(ReplaceCol(a, 4, b))>>, d)
  IN IF d = 0 THEN out
     ELSE IF \A i \in 1..Len(hs) : satisfies(hs[i], x) THEN Append(out, x)
     ELSE out

\* util.rs lines 37-43: a < b in the lexicographic order of the coordinates
LexLess(a, b) ==
  \E i \in 1..4 :
    /\ a.x[i] * b.w < b.x[i] * a.w
    /\ \A j \in 1..(i - 1) : a.x[j] * b.w = b.x[j] * a.w

\* the points of a finite set in lexicographic order
RECURSIVE SortedPoints(_)
SortedPoints(ps) ==
  IF ps = {} THEN <<>>
  ELSE LET m == CHOOSE p \in ps : \A q \in ps \ {p} : LexLess(p, q)
       IN <<m>> \o SortedPoints(ps \ {m})

\* util.rs lines 33-45: sort the points and drop a point equal to the one
\* before it: the distinct points in lexicographic order
dedup_points_in_place(points) ==
  IF Len(points) < 2 THEN points
  ELSE SortedPoints({points[i] : i \in 1..Len(points)})

\* the combinations of four of 1..n
Combs4(n) ==
  {c \in (1..n) \X (1..n) \X (1..n) \X (1..n) :
     c[1] < c[2] /\ c[2] < c[3] /\ c[3] < c[4]}

\* convert.rs lines 11-41: the points found by the passes over the
\* combinations, sorted and without repetition by dedup_points_in_place
h_to_vertices(hs) ==
  LET found == UNION {{q[i] : i \in 1..Len(q)} :
                        q \in {HToVerticesPass(hs, c, <<>>) : c \in Combs4(Len(hs))}}
  IN SortedPoints(found)

RECURSIVE Normalized(_, _, _)
Normalized(hs, k, out) ==
  IF k > Len(hs) THEN out
  ELSE LET h == normalized(hs[k])
       IN Normalized(hs, k + 1, IF h.some THEN Append(out, h.val) ELSE out)

RECURSIVE Pruned(_, _, _, _)
Pruned(tmp, verts, k, out) ==
  IF k > Len(tmp) THEN out
  ELSE Pruned(tmp, verts, k + 1,
              IF \E i \in 1..Len(verts) :
                   Dot4(tmp[k].n, verts[i].x) >= tmp[k].c * verts[i].w
              THEN Append(out, tmp[k]) ELSE out)

\* types.rs lines 56-95: unit normals; when the half-spaces have vertices,
\* only the half-spaces active at a vertex are kept
canonicalize_h_strict(hs) ==
  LET tmp == Normalized(hs, 1, <<>>)
      verts == h_to_vertices(tmp)
  IN IF tmp = <<>> \/ verts = <<>> THEN tmp ELSE Pruned(tmp, verts, 1, <<>>)

\* types.rs lines 142-153
from_h(h) == [h |-> canonicalize_h_strict(h), v |-> <<>>]

from_v(v) == [h |-> <<>>, v |-> v]

-----------------------------------------------------------------------------
(* Specification SpecConvert: Poly4::ensure_halfspaces_from_v on a         *)
(* polytope given by its vertices.  acc4 is the list out of                *)
(* v_to_halfspaces, pos4 the combination its loop stands at.               *)

\* the vector x with integer coordinates as a point
IntPoint(x) == Point4(x, 1)

\* special.rs lines 50-70: orthogonal_simplex(a, b, c, d), the vertices
\* minus their centroid
orthogonal_simplex(a, b, c, d) ==
  LET v == <<Zero4, <<a, 0, 0, 0>>, <<a, b, 0, 0>>, <<a, b, c, 0>>,
             <<a, b, c, d>>>>
      sum == <<4 * a, 3 * b, 2 * c, d>>
  IN from_v([i \in 1..5 |-> Point4(Sub4(Scale4(5, v[i]), sum), 5)])

\* edge lengths offered to orthogonal_simplex
EdgeLengths == {1, 2}

\* the vertices of the simplex {x >= -1, x1 + x2 + x3 + x4 <= 1}
CornerSimplex ==
  from_v(<<IntPoint(<<-1, -1, -1, -1>>), IntPoint(<<4, -1, -1, -1>>),
           IntPoint(<<-1, 4, -1, -1>>), IntPoint(<<-1, -1, 4, -1>>),
           IntPoint(<<-1, -1, -1, 4>>)>>)

\* the vertices of the cross polytope |x1| + |x2| + |x3| + |x4| <= 1
CrossVertices ==
  from_v(<<IntPoint(<<1, 0, 0, 0>>), IntPoint(<<-1, 0, 0, 0>>),
           IntPoint(<<0, 1, 0, 0>>), IntPoint(<<0, -1, 0, 0>>),
           IntPoint(<<0, 0, 1, 0>>), IntPoint(<<0, 0, -1, 0>>),
           IntPoint(<<0, 0, 0, 1>>), IntPoint(<<0, 0, 0, -1>>)>>)

\* three points: too few for a plane
ThreeVertices ==
  from_v(<<IntPoint(<<1, 0, 0, 0>>), IntPoint(<<0, 1, 0, 0>>),
           IntPoint(<<0, 0, 1, 0>>)>>)

\* the vertex sets conversion is run on
VertexPolys ==
  {orthogonal_simplex(a, b, c, d) : a, b, c, d \in EdgeLengths}
    \cup {CornerSimplex, CrossVertices, ThreeVertices}

InitConvert ==
  /\ poly = <<>> /\ ret = NoRet /\ last = NoOp
  /\ IdleDfs
  /\ IdleRand
  /\ p4 \in VertexPolys
  /\ pos4 = FirstComb(Len(p4.v))
  /\ acc4 = <<>>
  /\ out4 = "running"

\* convert.rs lines 51-71: the loop of v_to_halfspaces takes a combination
VToHalfspacesStep ==
  /\ out4 = "running" /\ pos4 # <<>>
  /\ acc4' = VToHalfspacesPass(p4.v, pos4, acc4)
  /\ pos4' = NextComb(pos4, Len(p4.v))
  /\ UNCHANGED <<polyVars, dfsVars, randVars, p4, out4>>

\* types.rs lines 180-186: v_to_halfspaces has returned and the result is
\* canonicalized into the cache h
EnsureHalfspacesFromV ==
  /\ out4 = "running" /\ pos4 = <<>>
  /\ p4' = [p4 EXCEPT !.h = canonicalize_h_strict(acc4)]
  /\ out4' = "done"
  /\ UNCHANGED <<polyVars, dfsVars, randVars, pos4, acc4>>

NextConvert == VToHalfspacesStep \/ EnsureHalfspacesFromV

SpecConvert == InitConvert /\ [][NextConvert]_vars

\* the facets of the convex hull of the points vs, outward: the planes
\* through four of the points that have every point on one side, with the
\* normal turned away from the points
HullFacets(vs) ==
  LET n == Len(vs)
      through == {<<i, j, k, l>> \in (1..n) \X (1..n) \X (1..n) \X (1..n) :
                    i < j /\ j < k /\ k < l}
      plane(q) ==
        LET pts == <<vs[q[1]], vs[q[2]], vs[q[3]], vs[q[4]]>>
            m == Reduce4(nullspace_vector_3x4(EdgeRows(pts)))
        IN Hs4(Scale4(pts[1].w, m), Dot4(m, pts[1].x))
      flip(h) == Hs4(Scale4(-1, h.n), -h.c)
      planes == {plane(q) : q \in through}
      sided == {h \in planes \cup {flip(h) : h \in planes} :
                  h.n # Zero4 /\ \A i \in 1..n : satisfies(h, vs[i])}
  IN {normalized(h).val : h \in sided}

\* C16: when ensure_halfspaces_from_v has run on a full-dimensional vertex
\* set, every facet of the convex hull of the vertices is among the
\* half-spaces, every vertex satisfies every half-space, and a simplex has
\* at least 5 half-spaces.
C16_EveryFacetFound ==
  (out4 = "done" /\ Len(p4.v) >= 5) =>
    /\ \A f \in HullFacets(p4.v) : \E i \in 1..Len(p4.h) : SamePlane(p4.h[i], f)
    /\ \A i \in 1..Len(p4.h) : \A j \in 1..Len(p4.v) : satisfies(p4.h[i], p4.v[j])
    /\ Len(p4.h) >= 5

\* the half-spaces found hold at every vertex
VerticesInsideHalfspaces ==
  out4 = "done" =>
    \A i \in 1..Len(p4.h) : \A j \in 1..Len(p4.v) : satisfies(p4.h[i], p4.v[j])

\* every facet is found when the vertex set is symmetric about the origin
FacetsOfSymmetricSetFound ==
  (out4 = "done" /\ p4.v = CrossVertices.v) =>
    /\ Len(p4.h) = 16
    /\ \A f \in HullFacets(p4.v) : \E i \in 1..Len(p4.h) : SamePlane(p4.h[i], f)

-----------------------------------------------------------------------------
(* geom4/faces.rs and geom4/volume.rs *)

\* faces.rs lines 44-55: the half-spaces tight at the vertex v
TightSet(hs, v) == {i \in 1..Len(hs) : Dot4(hs[i].n, v.x) = hs[i].c * v.w}

\* the vertices at which every half-space of the index set fs is tight
VerticesOn(hs, verts, fs) ==
  dedup_points_in_place(SelectSeq(verts, LAMBDA v : fs \subseteq TightSet(hs, v)))

\* faces.rs lines 56-71: the facets, in the order of the half-spaces
Facets3(hs, verts) ==
  SelectSeq([i \in 1..Len(hs) |->
               [facet_index |-> i, vertices |-> VerticesOn(hs, verts, {i})]],
            LAMBDA f : Len(f.vertices) >= 3)

\* faces.rs lines 72-95: the entries of faces2_map that are kept as 2-faces:
\* a pair of half-spaces tight together at two or more vertices.  The
\* order in which HashMap::into_iter hands them out is not fixed.
Faces2(hs, verts) ==
  {f \in {[facets |-> <<i, j>>, vertices |-> VerticesOn(hs, verts, {i, j})] :
            i, j \in 1..Len(hs)} :
     f.facets[1] < f.facets[2] /\ Len(f.vertices) >= 2}

\* three points on one line
Collinear(p, q, r) ==
  LET u == Sub4(Scale4(p.w, q.x), Scale4(q.w, p.x))
      v == Sub4(Scale4(p.w, r.x), Scale4(r.w, p.x))
  IN \A i, j \in 1..4 : u[i] * v[j] = u[j] * v[i]

\* volume.rs lines 175-201: plane_basis finds two independent directions
\* among the points
PlaneBasisExists(points) ==
  \E i, j, k \in 1..Len(points) :
    /\ i < j /\ k # i /\ k # j
    /\ points[i] # points[j]
    /\ ~Collinear(points[i], points[j], points[k])

\* volume.rs lines 154-173: order_face2_vertices returns None for fewer
\* than three points and for points without a plane basis.  The order it
\* gives the points only enters the magnitude of the volume, which the
\* model does not carry.
order_face2_vertices(points) ==
  IF Len(points) < 3 THEN None
  ELSE IF ~PlaneBasisExists(points) THEN None
  ELSE Some(points)

\* volume.rs VolumeError
NeedHalfspaces == [ok |-> FALSE, err |-> "NeedHalfspaces"]

NeedVertices == [ok |-> FALSE, err |-> "NeedVertices"]

DegenerateFace2(facets) == [ok |-> FALSE, err |-> "DegenerateFace2", facets |-> facets]

DegenerateFacet(facet) == [ok |-> FALSE, err |-> "DegenerateFacet", facet |-> facet]

\* volume4 has not returned: it is called, or running its vertex loop
Pending(what) == [pending |-> what]

\* the volume is returned; its magnitude is not part of the model
Ok == [ok |-> TRUE]

\* volume.rs lines 138-152: build_face2_lookup fails at the first 2-face,
\* in the order of the list, that cannot be ordered; any face that cannot
\* be ordered may be that first one
LookupErrors(faces2) ==
  {DegenerateFace2(f.facets) :
     f \in {q \in faces2 : ~order_face2_vertices(q.vertices).some}}

\* the sum of the points, as a point
RECURSIVE SumPoints(_, _, _)
SumPoints(points, k, acc) ==
  IF k > Len(points) THEN acc
  ELSE SumPoints(points, k + 1,
                 Point4(<<acc.x[1] * points[k].w + points[k].x[1] * acc.w,
                          acc.x[2] * points[k].w + points[k].x[2] * acc.w,
                          acc.x[3] * points[k].w + points[k].x[3] * acc.w,
                          acc.x[4] * points[k].w + points[k].x[4] * acc.w>>,
                        acc.w * points[k].w))

\* volume.rs lines 203-209
centroid(points) ==
  LET sum == SumPoints(points, 1, Point4(Zero4, 1))
  IN Point4(sum.x, sum.w * Len(points))

\* volume.rs lines 89-132: what the pass over facet k finds wrong, None
\* when it adds the facet's share to the total
FacetError(hs, center, faces2, facet) ==
  IF ~\E f \in faces2 : facet.facet_index \in {f.facets[1], f.facets[2]}
  THEN Some(DegenerateFacet(facet.facet_index))
  ELSE IF Len(facet.vertices) < 4 THEN Some(DegenerateFacet(facet.facet_index))
  ELSE IF hs[facet.facet_index].n = Zero4
  THEN Some(DegenerateFacet(facet.facet_index))
  ELSE IF hs[facet.facet_index].c * center.w
            < Dot4(hs[facet.facet_index].n, center.x)
  THEN Some(DegenerateFacet(facet.facet_index))
  ELSE None

RECURSIVE FacetLoop(_, _, _, _, _)
FacetLoop(hs, center, faces2, faces3, k) ==
  IF k > Len(faces3) THEN Ok
  ELSE LET e == FacetError(hs, center, faces2, faces3[k])
       IN IF e.some THEN e.val ELSE FacetLoop(hs, center, faces2, faces3, k + 1)

\* volume.rs lines 78-136, after the vertices are enumerated: the results
\* volume_from_halfspaces can return
VolumeResults(hs, verts) ==
  IF Len(verts) < 5 THEN {NeedVertices}
  ELSE LET faces2 == Faces2(hs, verts)
       IN IF LookupErrors(faces2) # {} THEN LookupErrors(faces2)
          ELSE {FacetLoop(hs, centroid(verts), faces2, Facets3(hs, verts), 1)}

-----------------------------------------------------------------------------
(* Specification SpecVolume: volume4 on a Poly4.  pos4 is the combination  *)
(* the loop of h_to_vertices stands at and acc4 the points it has found.   *)

\* special.rs lines 19-31: hypercube(1)
hypercube ==
  from_h(<<Hs4(<<1, 0, 0, 0>>, 1), Hs4(<<-1, 0, 0, 0>>, 1),
           Hs4(<<0, 1, 0, 0>>, 1), Hs4(<<0, -1, 0, 0>>, 1),
           Hs4(<<0, 0, 1, 0>>, 1), Hs4(<<0, 0, -1, 0>>, 1),
           Hs4(<<0, 0, 0, 1>>, 1), Hs4(<<0, 0, 0, -1>>, 1)>>)

\* special.rs lines 33-48: cross_polytope_l1(1), the sign patterns in the
\* order of the nested loops
cross_polytope_l1 ==
  from_h([k \in 1..16 |->
            LET sg(b) == IF ((k - 1) \div b) % 2 = 0 THEN -1 ELSE 1
            IN Hs4(<<sg(8), sg(4), sg(2), sg(1)>>, 1)])

\* the simplex {x >= 0, x1 + x2 + x3 + x4 <= 1} of the volume tests
StandardSimplex ==
  from_h(<<Hs4(<<-1, 0, 0, 0>>, 0), Hs4(<<0, -1, 0, 0>>, 0),
           Hs4(<<0, 0, -1, 0>>, 0), Hs4(<<0, 0, 0, -1>>, 0),
           Hs4(<<1, 1, 1, 1>>, 1)>>)

\* bounded polytopes with interior points in canonical H-representation
CanonicalPolytopes == {hypercube, cross_polytope_l1, StandardSimplex}

\* Poly4::default()
DefaultPoly4 == [h |-> <<>>, v |-> <<>>]

\* four half-spaces: a cone
FourHalfspaces == [h |-> SubSeq(StandardSimplex.h, 1, 4), v |-> <<>>]

\* five half-spaces that meet in no point: a slab times a half-line
OpenPrism == [h |-> SubSeq(hypercube.h, 1, 5), v |-> <<>>]

\* six half-spaces with one vertex
PointedCone ==
  [h |-> StandardSimplex.h \o <<Hs4(<<1, 1, 1, 1>>, 0)>>, v |-> <<>>]

VolumeInputs ==
  CanonicalPolytopes
    \cup {DefaultPoly4, FourHalfspaces, OpenPrism, PointedCone, CornerSimplex}

InitVolume ==
  /\ poly = <<>> /\ ret = NoRet /\ last = NoOp
  /\ IdleDfs
  /\ IdleRand
  /\ p4 \in VolumeInputs
  /\ pos4 = <<>>
  /\ acc4 = <<>>
  /\ out4 = Pending("called")

RECURSIVE VToHalfspacesFrom(_, _, _)
VToHalfspacesFrom(vs, comb, out) ==
  IF comb = <<>> THEN out
  ELSE VToHalfspacesFrom(vs, NextComb(comb, Len(vs)),
                         VToHalfspacesPass(vs, comb, out))

\* convert.rs lines 43-73
v_to_halfspaces(vs) == VToHalfspacesFrom(vs, FirstComb(Len(vs)), <<>>)

\* types.rs lines 180-186
ensure_halfspaces_from_v(p) ==
  IF p.h # <<>> THEN p
  ELSE [p EXCEPT !.h = canonicalize_h_strict(v_to_halfspaces(p.v))]

\* volume.rs lines 63-82: volume4 up to the call of enumerate_faces_from_h
Volume4Enter ==
  /\ out4 = Pending("called")
  /\ LET q == IF p4.h = <<>> /\ p4.v # <<>> THEN ensure_halfspaces_from_v(p4)
              ELSE p4
     IN /\ p4' = q
        /\ IF Len(q.h) < 5
           THEN out4' = NeedHalfspaces /\ pos4' = <<>>
           ELSE out4' = Pending("running") /\ pos4' = FirstComb(Len(q.h))
  /\ UNCHANGED <<polyVars, dfsVars, randVars, acc4>>

\* convert.rs lines 19-36: the loop of h_to_vertices takes a combination
HToVerticesStep ==
  /\ out4 = Pending("running") /\ pos4 # <<>>
  /\ acc4' = HToVerticesPass(p4.h, pos4, acc4)
  /\ pos4' = NextComb(pos4, Len(p4.h))
  /\ UNCHANGED <<polyVars, dfsVars, randVars, p4, out4>>

\* volume.rs lines 82-136: the vertices are enumerated; faces, lookup and
\* the loop over the facets
VolumeFromHalfspaces ==
  /\ out4 = Pending("running") /\ pos4 = <<>>
  /\ out4' \in VolumeResults(p4.h, dedup_points_in_place(acc4))
  /\ UNCHANGED <<polyVars, dfsVars, randVars, p4, pos4, acc4>>

NextVolume == Volume4Enter \/ HToVerticesStep \/ VolumeFromHalfspaces

SpecVolume == InitVolume /\ [][NextVolume]_vars

Returned == "pending" \notin DOMAIN out4

\* C17: volume4 returns Ok for the canonical H-representation of a bounded
\* polytope with interior points (hypercube, simplex, cross polytope),
\* NeedHalfspaces for fewer than 5 half-spaces and NeedVertices for fewer
\* than 5 vertices.
C17_OkForCanonicalPolytopes ==
  Returned =>
    /\ p4 \in CanonicalPolytopes => out4.ok
    /\ Len(p4.h) < 5 => out4 = NeedHalfspaces
    /\ (Len(p4.h) >= 5 /\ Len(dedup_points_in_place(acc4)) < 5)
         => out4 = NeedVertices

\* C17 for the simple polytopes of the model, in which every vertex lies on
\* exactly four facets
VolumeOkForSimplePolytopes ==
  Returned =>
    /\ p4 \in {hypercube, StandardSimplex} => out4.ok
    /\ Len(p4.h) < 5 => out4 = NeedHalfspaces
    /\ (Len(p4.h) >= 5 /\ Len(dedup_points_in_place(acc4)) < 5)
         => out4 = NeedVertices

-----------------------------------------------------------------------------
(* Specification SpecParams: the parameters of the Mahler product          *)
(* generator, rand4::MahlerProductParams, on their way through             *)
(* MahlerProductGenerator::new, generate_next, sample_with_token and       *)
(* geom2::rand::draw_polygon_radial.  Jitters and bounds are in            *)
(* hundredths, base_radius in units of 1e-10.  The polygon that is sampled *)
(* from the values in drawn is not part of the model.                      *)

\* geom2/rand.rs VertexCount
Fixed(n) == [kind |-> "Fixed", n |-> n]

Uniform(min, max) == [kind |-> "Uniform", min |-> min, max |-> max]

\* the least vertex count the sampler works with (n.max(3))
MinVertexCount == 3

\* the largest angular jitter the sampler works with, 0.49
MaxAngleJitter == 49

\* the least base radius the sampler works with, 1e-9
MinBaseRadius == 10

\* parameter values offered to the generator
VertexCounts ==
  {Fixed(0), Fixed(2), Fixed(3), Fixed(5), Uniform(2, 4), Uniform(3, 4),
   Uniform(5, 3)}

AngleJitters == {-10, 0, 25, 49, 90}

RadialJitters == {-20, 0, 20}

BaseRadii == {-10, 0, 5, 10, 1000}

InradiusBounds == {0, 10}

OutradiusBounds == {0, 5, 200}

AttemptBounds == {0, 16}

ParamSet ==
  [vertex_count : VertexCounts, angle_jitter_frac : AngleJitters,
   radial_jitter : RadialJitters, base_radius : BaseRadii,
   r_in_min : InradiusBounds, r_out_max : OutradiusBounds,
   max_attempts : AttemptBounds]

\* rand4/mod.rs GeneratorError::invalid
InvalidParams(reason) == [ok |-> FALSE, reason |-> reason]

Constructed == [ok |-> TRUE]

\* rand4/mod.rs lines 494-514
validate(q) ==
  IF q.base_radius <= 0
  THEN InvalidParams("radial_cfg.base_radius must be finite and positive")
  ELSE IF q.r_in_min <= 0 THEN InvalidParams("bounds.r_in_min must be > 0")
  ELSE IF q.r_out_max > 0 /\ q.r_out_max <= q.r_in_min
  THEN InvalidParams("bounds.r_out_max must exceed bounds.r_in_min when both are set")
  ELSE IF q.max_attempts = 0 THEN InvalidParams("max_attempts must be > 0")
  ELSE Constructed

\* geom2/rand.rs lines 26-37: the counts VertexCount::sample can return
sample(vc) ==
  IF vc.kind = "Fixed" THEN {Max(vc.n, MinVertexCount)}
  ELSE LET lo == Max(vc.min, MinVertexCount)
           hi == Max(vc.max, lo)
       IN lo..hi

\* geom2/rand.rs lines 99-105: the values the sampling of
\* draw_polygon_radial works with
Sampling(q) ==
  {[n |-> Max(n, MinVertexCount),
    aj |-> Max(0, Min(q.angle_jitter_frac, MaxAngleJitter)),
    rj |-> Max(q.radial_jitter, 0),
    r0 |-> Max(q.base_radius, MinBaseRadius)] : n \in sample(q.vertex_count)}

InitParams ==
  /\ poly = <<>> /\ ret = NoRet /\ last = NoOp
  /\ IdleDfs
  /\ IdleGeom4
  /\ params \in ParamSet
  /\ gen = [ok |-> FALSE, reason |-> "not constructed"]
  /\ drawn = <<>>

\* rand4/mod.rs lines 549-556: MahlerProductGenerator::new
New ==
  /\ gen = [ok |-> FALSE, reason |-> "not constructed"] /\ drawn = <<>>
  /\ gen' = validate(params)
  /\ UNCHANGED <<polyVars, dfsVars, geom4Vars, params, drawn>>

\* rand4/mod.rs lines 587-609: generate_next on a constructed generator
\* reaches draw_polygon_radial through sample_with_token
GenerateNext ==
  /\ gen.ok /\ drawn = <<>>
  /\ drawn' \in Sampling(params)
  /\ UNCHANGED <<polyVars, dfsVars, geom4Vars, params, gen>>

\* rand4/mod.rs lines 558-575: sample_with_token is public and takes the
\* parameters as they are
SampleWithToken ==
  /\ gen = [ok |-> FALSE, reason |-> "not constructed"] /\ drawn = <<>>
  /\ drawn' \in Sampling(params)
  /\ UNCHANGED <<polyVars, dfsVars, geom4Vars, params, gen>>

NextParams == New \/ GenerateNext \/ SampleWithToken

SpecParams == InitParams /\ [][NextParams]_vars

\* the vertex counts the parameter asks for
Requested(vc) == IF vc.kind = "Fixed" THEN {vc.n} ELSE vc.min..vc.max

\* C18: a parameter error carries a reason, and the values a polygon is
\* sampled with are the values of the parameters: none is replaced by a
\* clamped value.
C18_NoSilentClamp ==
  /\ ~gen.ok => gen.reason # ""
  /\ drawn # <<>> =>
       /\ drawn.n \in Requested(params.vertex_count)
       /\ drawn.aj = params.angle_jitter_frac
       /\ drawn.rj = params.radial_jitter
       /\ drawn.r0 = params.base_radius

\* what new rejects never reaches the sampler through generate_next, and a
\* rejection carries a reason
RejectedParamsNotSampled ==
  /\ ~gen.ok => gen.reason # ""
  /\ (gen.ok /\ drawn # <<>>) =>
       /\ params.base_radius > 0 /\ params.r_in_min > 0
       /\ params.max_attempts > 0
       /\ params.r_out_max > 0 => params.r_out_max > params.r_in_min

-----------------------------------------------------------------------------
(* Specification SpecRidges: the ridge list of build_graph, built twice    *)
(* for the same polytope.  acc4 holds the ridge list of each run.  A chart *)
(* is kept by vectors with the directions of its rows u1 and u2; the       *)
(* polygon of a ridge and the edges built from the ridges afterwards are   *)
(* not part of the model.                                                  *)

\* maps.rs lines 11-19: J x
JTimes(x) == <<-x[3], -x[4], x[1], x[2]>>

\* v - n (v.n)/(n.n), times a positive factor
ProjectOut(v, n) ==
  Reduce4(Sub4(Scale4(Dot4(n, n), v), Scale4(Dot4(v, n), n)))

\* maps.rs lines 222-243: the directions of the two vectors Gram-Schmidt
\* leaves of the seeds (1, 2, 3, 5) and (-2, 1, 0.5, -1)
orthonormal_complement_2d(n1, n2) ==
  LET v == ProjectOut(ProjectOut(<<1, 2, 3, 5>>, n1), n2)
      w == ProjectOut(ProjectOut(<<-4, 2, 1, -2>>, n1), n2)
  IN <<v, ProjectOut(w, v)>>

Sgn(x) == IF x > 0 THEN 1 ELSE IF x < 0 THEN -1 ELSE 0

\* build.rs lines 238-252: the sign of u1.(J u2)
chart_signed_omega(u) == Sgn(Dot4(u[1], JTimes(u[2])))

\* maps.rs lines 125-166: the chart of the 2-face of facets i and j, turned
\* so that omega(u1, u2) > 0, or by the sign of det [u1 u2 n1 n2] when
\* omega(u1, u2) = 0
oriented_orth_map_face2(hs, i, j) ==
  IF i > Len(hs) \/ j > Len(hs) \/ i = j THEN None
  ELSE LET u == orthonormal_complement_2d(hs[i].n, hs[j].n)
           omega == chart_signed_omega(u)
           det == Sgn(Det4(<<u[1], u[2], hs[i].n, hs[j].n>>))
           turn == IF omega # 0 THEN omega ELSE IF det # 0 THEN det ELSE 1
       IN Some(<<u[1], Scale4(turn, u[2])>>)

\* build.rs lines 234-236
chart_is_lagrangian(u) == chart_signed_omega(u) = 0

\* build.rs lines 254-265 with util.rs lines 19-33 and 64-68: the polygon
\* of a ridge exists when its vertices have two or more distinct images
\* under the chart
ridge_poly_exists(u, verts) ==
  /\ Len(verts) >= 2
  /\ \E a, b \in 1..Len(verts) :
       \E k \in 1..2 :
         Dot4(u[k], verts[a].x) * verts[b].w # Dot4(u[k], verts[b].x) * verts[a].w

\* build.rs lines 27-49: the loop over faces2 in the order it has
RECURSIVE RidgeLoop(_, _, _, _)
RidgeLoop(hs, faces2, k, ridges) ==
  IF k > Len(faces2) THEN ridges
  ELSE LET f == faces2[k]
           chart == oriented_orth_map_face2(hs, f.facets[1], f.facets[2])
           keep == /\ chart.some
                   /\ ~chart_is_lagrangian(chart.val)
                   /\ ridge_poly_exists(chart.val, f.vertices)
       IN RidgeLoop(hs, faces2, k + 1,
                    IF keep THEN Append(ridges, [facets |-> f.facets,
                                                 chart_u |-> chart.val])
                    ELSE ridges)

\* the 2-faces of a set in the order of their keys
RECURSIVE KeyOrder(_)
KeyOrder(fs) ==
  IF fs = {} THEN <<>>
  ELSE LET m == CHOOSE f \in fs :
                  \A q \in fs \ {f} :
                    \/ f.facets[1] < q.facets[1]
                    \/ f.facets[1] = q.facets[1] /\ f.facets[2] < q.facets[2]
       IN <<m>> \o KeyOrder(fs \ {m})

\* faces.rs lines 81-95: HashMap::into_iter hands the entries out in an
\* order that std fixes neither between two maps nor between two runs.
\* Of all orders the model offers the key order turned by any number of
\* places, forwards and backwards.
IterationOrders(fs) ==
  LET ord == KeyOrder(fs)
      n == Len(ord)
  IN IF n = 0 THEN {<<>>}
     ELSE {[k \in 1..n |-> ord[((k - 1 + r) % n) + 1]] : r \in 0..(n - 1)}
            \cup {[k \in 1..n |-> ord[((n - k + r) % n) + 1]] : r \in 0..(n - 1)}

\* polytopes the graph is built for
RidgePolytopes == {hypercube, StandardSimplex}

\* number of runs compared
Runs == 2

InitRidges ==
  /\ poly = <<>> /\ ret = NoRet /\ last = NoOp
  /\ IdleDfs
  /\ IdleRand
  /\ p4 \in RidgePolytopes
  /\ pos4 = <<>>
  /\ acc4 = <<>>
  /\ out4 = <<>>

\* build.rs lines 19-49: build_graph enumerates the faces and numbers the
\* ridges in the order of faces2
BuildRidges ==
  /\ Len(acc4) < Runs
  /\ \E faces2 \in IterationOrders(Faces2(p4.h, h_to_vertices(p4.h))) :
       acc4' = Append(acc4, RidgeLoop(p4.h, faces2, 1, <<>>))
  /\ UNCHANGED <<polyVars, dfsVars, randVars, p4, pos4, out4>>

NextRidges == BuildRidges

SpecRidges == InitRidges /\ [][NextRidges]_vars

\* C19: two runs of build_graph on the same polytope give the ridges the
\* same identifiers in the same order.
C19_SameRidgeOrderEachRun ==
  Len(acc4) = Runs => acc4[1] = acc4[2]

\* two runs find the same ridges, whatever their numbers
SameRidgeSetEachRun ==
  Len(acc4) = Runs =>
    /\ Len(acc4[1]) = Len(acc4[2])
    /\ {acc4[1][k] : k \in 1..Len(acc4[1])} = {acc4[2][k] : k \in 1..Len(acc4[2])}

\* of the 24 2-faces of the hypercube build_graph keeps eight as ridges: those
\* of a facet with normal +-e1 and one with +-e3, or +-e2 and +-e4
HypercubeHasEightRidges ==
  p4 = hypercube /\ Len(acc4) >= 1 =>
    /\ Cardinality(Faces2(p4.h, h_to_vertices(p4.h))) = 24
    /\ Len(acc4[1]) = 8
    /\ \A k \in 1..8 :
         LET f == acc4[1][k].facets
         IN {p4.h[f[1]].n, p4.h[f[2]].n} \in
              {{<<a, 0, 0, 0>>, <<0, 0, b, 0>>} : a, b \in {-1, 1}}
                \cup {{<<0, a, 0, 0>>, <<0, 0, 0, b>>} : a, b \in {-1, 1}}

-----------------------------------------------------------------------------
(* Specification SpecPrune: the search of Spec on graphs every edge of     *)
(* which has an action increment that is non-negative over its domain:     *)
(* the constant increments of EdgeKinds and, on the first edge,             *)
(* 7 - 3x - 4y, which is 0 at the corner (1, 1) of UnitBox and 4/5 at the  *)
(* corner (1/5, 7/5) of Triangle.                                          *)

Falling == EdgeKind(Identity, <<0, 0>>, FALSE, <<-3, -4>>, 7, 0)

NonNegKindsAt(k) == EdgeKinds \cup (IF k = 1 THEN {Falling} ELSE {})

InitPrune ==
  /\ poly = <<>> /\ ret = NoRet /\ last = NoOp
  /\ IdleGeom4
  /\ IdleRand
  /\ \E k1 \in NonNegKindsAt(1), k2 \in NonNegKindsAt(2),
        k3 \in NonNegKindsAt(3), k4 \in NonNegKindsAt(4),
        fl \in FacetLabelings, q \in RidgePolys :
          g = Graph(<<k1, k2, k3, k4>>, fl, q)
  /\ scfg \in {SearchCfg(TRUE), SearchCfg(FALSE)}
  /\ best = PosInf
  /\ best_cycle = <<>>
  /\ best_z = None
  /\ with_fp = FALSE
  /\ stack = <<>>
  /\ frames = <<>>
  /\ s = 1
  /\ pc = "loop"
  /\ result = None
  /\ walk = <<>>
  /\ ev = [kind |-> "new"]
  /\ accepted = [walk |-> <<>>]
  /\ feasible = FALSE
  /\ started = {}

SpecPrune == InitPrune /\ [][Next]_vars

\* the action increment of every edge is >= 0 on the corners of its domain
NonNegativeIncrements ==
  \A k \in 1..Len(g.edges) :
    \A p \in CornerPoints(g.edges[k].dom_in) :
      contains_eps(g.edges[k].dom_in, p, 0)
        => ~RLt(eval(g.edges[k].action_inc, p), Rat(0, 1))

\* recur without lines 208-216 and with c2 = c1 in place of line 250: what
\* the loop body does with edge e
UnprunedOutcome(state, e) ==
  IF FacetSeen(state, e) THEN [tag |-> "seen"]
  ELSE LET c_dom == intersect(state.candidate, e.dom_in)
           c1 == push_forward(c_dom, e.map_ij)
           rho1 == state.rho + e.rotation_inc
           a_pull == compose_with_inv_affine2(state.action, e.map_ij)
           a_edge == compose_with_inv_affine2(e.action_inc, e.map_ij)
       IN IF is_empty_eps(c_dom, eps_feas) THEN [tag |-> "empty_dom"]
          ELSE IF ~c1.some THEN [tag |-> "not_invertible"]
          ELSE IF RotationPruned(scfg, rho1) THEN [tag |-> "rotation"]
          ELSE IF ~a_pull.some \/ ~a_edge.some THEN [tag |-> "not_invertible"]
          ELSE AfterCut(state, e, c1.val, add(a_pull.val, a_edge.val), rho1)

\* the incumbent after the unpruned call for state has gone through its
\* out-edges from the k-th on
RECURSIVE UnprunedRecur(_, _, _)
UnprunedRecur(state, k, bst) ==
  IF k > Len(g.adj[state.cur]) THEN bst
  ELSE LET o == UnprunedOutcome(state, g.edges[g.adj[state.cur][k]])
       IN UnprunedRecur(state, k + 1,
            IF o.tag = "close"
            THEN (IF Improves(o.fp, bst) THEN o.fp.val.val ELSE bst)
            ELSE IF o.tag = "descend" THEN UnprunedRecur(o.next, 1, bst)
            ELSE bst)

RECURSIVE UnprunedSolve(_, _)
UnprunedSolve(r, bst) ==
  IF r > Len(g.ridges) THEN bst
  ELSE UnprunedSolve(r + 1, UnprunedRecur(State0(r), 1, bst))

\* the value dfs_solve returns without the two prunes
UnprunedResult ==
  LET b == UnprunedSolve(1, PosInf)
  IN IF IsFinite(b) THEN Some(b) ELSE None

\* C21: on graphs with non-negative action increments dfs_solve returns the
\* value that the same search returns without the bound at the top of a
\* call and without the cut by the incumbent.
C21_PrunesKeepTheValue ==
  pc = "done" /\ NonNegativeIncrements =>
    LET u == UnprunedResult
    IN /\ result.some = u.some
       /\ result.some => REq(result.val.value, u.val)

\* with constant action increments, for which to_cut has a zero normal and
\* with_cut stores nothing, the value is that of the unpruned search
ConstantIncrementsKeepTheValue ==
  pc = "done" /\ (\A k \in 1..Len(g.edges) : g.edges[k].action_inc.a = <<0, 0>>) =>
    LET u == UnprunedResult
    IN /\ result.some = u.some
       /\ result.some => REq(result.val.value, u.val)

-----------------------------------------------------------------------------
(* Backtracking *)

\* the ridge path is the list of the current ridges of the running calls,
\* and it is empty between two start ridges
StackIsPath ==
  IF pc \in {"enter", "edges"}
  THEN /\ Len(stack) = Len(frames)
       /\ \A i \in 1..Len(frames) : stack[i] = frames[i].st.cur
  ELSE stack = <<>> /\ frames = <<>>

\* no step changes the State of a call that stays on the call stack
FramesKept ==
  \A i \in 1..Min(Len(frames), Len(frames')) : frames'[i].st = frames[i].st

\* C22: when a recursive call returns, the caller's State (visited facets,
\* candidate polygon, action, rotation, composed map) and the ridge path are
\* what they were before the call, and the path is empty again after each
\* start ridge.
C22_BacktrackingRestores == [](StackIsPath) /\ [][FramesKept]_vars

\* a recursive call that took an edge itself has returned to its caller
C22_Witness ==
  /\ pc = "edges" /\ ev.kind = "exhausted"
  /\ Len(frames) >= 1 /\ Top.k > 1
  /\ Top.st.cur = stack[Len(stack)]
  /\ \E f \in 1..g.num_facets : Top.st.facets_seen[f]

-----------------------------------------------------------------------------
(* Termination *)

SeenCount(st) == Cardinality({f \in 1..g.num_facets : st.facets_seen[f]})

\* the i-th running call has i - 1 visited facets, and its loop stands at an
\* out-edge of its ridge or just behind the last
DepthBounded ==
  /\ Len(frames) <= g.num_facets + 1
  /\ \A i \in 1..Len(frames) :
       /\ SeenCount(frames[i].st) = i - 1
       /\ frames[i].k \in 1..(Len(g.adj[frames[i].st.cur]) + 1)
  /\ s \in 1..(Len(g.ridges) + 1)

\* What is left of the search, most significant first: the start ridges not
\* yet finished, then for each running call, outermost first, the out-edges
\* its loop has not yet taken.  Every entry is a natural number.
Remaining ==
  [i \in 0..(g.num_facets + 1) |->
     IF i = 0
     THEN (IF pc = "done" THEN 0
           ELSE 2 * (Len(g.ridges) + 1 - s) + (IF pc = "loop" THEN 1 ELSE 0))
     ELSE IF i > Len(frames) THEN 0
     ELSE 2 * (Len(g.adj[frames[i].st.cur]) + 1 - frames[i].k)
            + (IF i = Len(frames) /\ pc = "enter" THEN 2 ELSE 1)]

\* r1 comes before r2 in the lexicographic order
RankLess(r1, r2) ==
  \E i \in DOMAIN r1 :
    /\ r1[i] < r2[i]
    /\ \A j \in DOMAIN r1 : j < i => r1[j] = r2[j]

\* C29: every recursive call has one more visited facet than its caller, so
\* the recursion depth never exceeds num_facets; and every step of solve and
\* recur lowers Remaining in a well-founded order, so each start ridge's search
\* ends after finitely many edge examinations and dfs_solve returns.
C29_Terminates == [](DepthBounded) /\ [][RankLess(Remaining', Remaining)]_vars

\* solve has returned after a search that went two calls deep
C29_Witness ==
  /\ pc = "done"
  /\ Len(accepted.walk) = 3

\* ---------------------------------------------------------------------------
\* dfs_solve_with_fp: the incumbent value, cycle and fixed point
\* ---------------------------------------------------------------------------

\* DfsRunner::new followed by solve_with_fp, on the graphs of Init
InitFp ==
  /\ poly = <<>> /\ ret = NoRet /\ last = NoOp
  /\ IdleGeom4
  /\ IdleRand
  /\ \E k1 \in EdgeKindsAt(1), k2 \in EdgeKindsAt(2), k3 \in EdgeKindsAt(3),
        k4 \in EdgeKindsAt(4),
        fl \in FacetLabelings, q \in RidgePolys :
          g = Graph(<<k1, k2, k3, k4>>, fl, q)
  /\ scfg \in {SearchCfg(TRUE), SearchCfg(FALSE)}
  /\ best = PosInf
  /\ best_cycle = <<>>
  /\ best_z = None
  /\ with_fp = TRUE
  /\ stack = <<>>
  /\ frames = <<>>
  /\ s = 1
  /\ pc = "loop"
  /\ result = None
  /\ walk = <<>>
  /\ ev = [kind |-> "new"]
  /\ accepted = [walk |-> <<>>]
  /\ feasible = FALSE
  /\ started = {}

SpecFp == InitFp /\ [][Next]_vars

\* the ridge path that was on the stack when the closed walk w was accepted
RidgesOf(w) == [i \in 1..Len(w) |-> g.edges[w[i]].from]

\* C30: in dfs_solve_with_fp the incumbent value, cycle and fixed point are
\* replaced together and all three come from the closure that was accepted
\* last; whenever the incumbent value is finite a fixed point is stored, so the
\* unwrap at the end of solve_with_fp never panics.
C30_IncumbentTripleAtomic ==
  /\ IsFinite(best) => best_z.some
  /\ best_z.some <=> accepted.walk # <<>>
  /\ best_z.some =>
       /\ best = accepted.val
       /\ best_z.val = accepted.z
       /\ best_cycle = RidgesOf(accepted.walk)
  /\ "panic" \notin DOMAIN result
  /\ (pc = "done" /\ result.some) =>
       /\ result.val.value = best
       /\ result.val.cycle = best_cycle
       /\ result.val.z = best_z.val

\* solve_with_fp has returned a triple whose incumbent was replaced at least
\* once by a closure of three edges
C30_Witness ==
  /\ with_fp /\ pc = "done" /\ result.some
  /\ Len(accepted.walk) = 3
  /\ result.val.z = accepted.z
  /\ IsFinite(result.val.value)

-----------------------------------------------------------------------------
(* oriented_edge/build.rs: the order of the adjacency lists *)

\* a tau-inequality (build.rs lines 96, 113) that no point of the ridge
\* polygon satisfies: 0.6 x + 0.8 y >= 2
StrayCut == Hs2(<<-3, -4>>, -10)

\* the domains build_graph may leave on an edge out of a ridge with polygon q:
\* q itself, or q with StrayCut inserted, which halfspace_intersection_eps
\* does not report Empty (line 117) although no point satisfies it
DomainsOn(q) == {q, insert_halfspace(q, StrayCut)}

\* build.rs lines 201-225, with the domain of each edge given
GraphWith(kinds, doms, fl, q) ==
  LET edges == [k \in 1..Len(EdgeEnds) |->
                  [from |-> EdgeEnds[k][1], to |-> EdgeEnds[k][2],
                   facet |-> fl[k],
                   dom_in |-> doms[k],
                   map_ij |-> kinds[k].map_ij,
                   action_inc |-> kinds[k].action_inc,
                   rotation_inc |-> kinds[k].rotation_inc,
                   lb_action |-> lb_action(doms[k], kinds[k].action_inc)]]
  IN [ ridges |-> [r \in 1..NumRidges |-> [poly |-> q]],
       edges |-> edges,
       adj |-> [r \in 1..NumRidges |-> sort_by(edges, Adjacency[r])],
       num_facets |-> NumFacets ]

\* the two constant increments of EdgeKinds on an identity map
PlainKinds ==
  { k \in EdgeKinds : k.map_ij = Aff2(Identity, <<0, 0>>) /\ ~k.far }

\* solve on the graphs whose second ridge has out-edges with either domain
InitOrder ==
  /\ poly = <<>> /\ ret = NoRet /\ last = NoOp
  /\ IdleGeom4
  /\ IdleRand
  /\ \E k1 \in EdgeKinds, k2 \in PlainKinds, k3 \in PlainKinds, k4 \in EdgeKinds,
        fl \in FacetLabelings, q \in RidgePolys :
       \E d2 \in DomainsOn(q), d3 \in DomainsOn(q) :
          g = GraphWith(<<k1, k2, k3, k4>>, <<q, d2, d3, q>>, fl, q)
  /\ scfg \in {SearchCfg(TRUE), SearchCfg(FALSE)}
  /\ best = PosInf
  /\ best_cycle = <<>>
  /\ best_z = None
  /\ with_fp = FALSE
  /\ stack = <<>>
  /\ frames = <<>>
  /\ s = 1
  /\ pc = "loop"
  /\ result = None
  /\ walk = <<>>
  /\ ev = [kind |-> "new"]
  /\ accepted = [walk |-> <<>>]
  /\ feasible = FALSE
  /\ started = {}

SpecOrder == InitOrder /\ [][Next]_vars

NotBounded(e) == halfspace_intersection(g.edges[e].dom_in).kind # "Bounded"

\* C23: an edge whose domain is not classified as bounded comes, in the
\* adjacency list of its source ridge, after every out-edge with a finite lower
\* bound.
C23_UnboundedDomainComesLast ==
  \A r \in 1..Len(g.adj) :
    \A i, j \in 1..Len(g.adj[r]) :
      (NotBounded(g.adj[r][i]) /\ IsFinite(g.edges[g.adj[r][j]].lb_action))
        => j < i

\* the first half of the sentence: such an edge has lower bound -inf
UnboundedDomainGetsNegInf ==
  \A e \in 1..Len(g.edges) : NotBounded(e) => g.edges[e].lb_action = NegInf

\* what the ascending sort does: such an edge comes before every out-edge with
\* a finite lower bound
UnboundedDomainComesFirst ==
  \A r \in 1..Len(g.adj) :
    \A i, j \in 1..Len(g.adj[r]) :
      (NotBounded(g.adj[r][i]) /\ IsFinite(g.edges[g.adj[r][j]].lb_action))
        => i < j

\* the loop of recur over the out-edges of the second ridge has examined the
\* edge with the unbounded domain and not yet the one with the finite bound
UnboundedDomainExaminedFirst ==
  /\ pc = "edges" /\ Len(frames) >= 1
  /\ Top.st.cur = 2 /\ Top.k = 2
  /\ NotBounded(Top.examined[1])
  /\ IsFinite(g.edges[OutEdges[2]].lb_action)

-----------------------------------------------------------------------------
(* Specification SpecFaces: enumerate_faces_from_h on a Poly4.  pos4 is    *)
(* the combination the loop of h_to_vertices stands at, acc4 the points    *)
(* found so far, out4 the tuple returned.                                  *)

\* faces.rs lines 96-118: the entries of faces1_map that are kept as 1-faces:
\* three half-spaces tight together at two or more vertices
Faces1(hs, verts) ==
  {f \in {[facets |-> <<i, j, k>>, vertices |-> VerticesOn(hs, verts, {i, j, k})] :
            i, j, k \in 1..Len(hs)} :
     f.facets[1] < f.facets[2] /\ f.facets[2] < f.facets[3]
       /\ Len(f.vertices) >= 2}

\* the key a comes before the key b
RECURSIVE KeyLess(_, _)
KeyLess(a, b) ==
  /\ a # <<>>
  /\ \/ a[1] < b[1]
     \/ a[1] = b[1] /\ KeyLess(Tail(a), Tail(b))

\* the records of a set in the order of their keys
InKeyOrder(fs) ==
  [k \in 1..Cardinality(fs) |->
     CHOOSE f \in fs : Cardinality({q \in fs : KeyLess(q.facets, f.facets)}) = k - 1]

Reversed(q) == [k \in 1..Len(q) |-> q[Len(q) + 1 - k]]

\* faces.rs lines 103-118: the order HashMap::into_iter hands the 1-faces out
\* in; the model offers the key order and its reverse
IterationOrders1(fs) == {InKeyOrder(fs), Reversed(InKeyOrder(fs))}

\* the closure given to dedup_by (faces.rs lines 131-142, 149-160)
SameBucket(a, b) ==
  /\ a.facets = b.facets
  /\ Len(a.vertices) = Len(b.vertices)
  /\ \A i \in 1..Len(a.vertices) : a.vertices[i] = b.vertices[i]

\* Vec::dedup_by: an element is removed when the closure holds for it and the
\* element kept before it
dedup_by(faces) ==
  SelectSeq([k \in 1..Len(faces) |->
               [f |-> faces[k],
                dup |-> k > 1 /\ SameBucket(faces[k], faces[k - 1])]],
            LAMBDA e : ~e.dup)

\* faces.rs lines 127-143 and 145-161.  With a run of three or more equal
\* records dedup_by compares with the element kept, which equals the element
\* before, so comparing neighbours gives the same list.
dedup_faces(faces) ==
  LET kept == dedup_by([k \in 1..Len(faces) |->
                          [faces[k] EXCEPT !.vertices = dedup_points_in_place(@)]])
  IN [k \in 1..Len(kept) |-> kept[k].f]

\* polytopes the faces are enumerated for
FacesInputs == CanonicalPolytopes \cup {PointedCone}

InitFaces ==
  /\ poly = <<>> /\ ret = NoRet /\ last = NoOp
  /\ IdleDfs
  /\ IdleRand
  /\ p4 \in FacesInputs
  /\ pos4 = FirstComb(Len(p4.h))
  /\ acc4 = <<>>
  /\ out4 = Pending("running")

\* faces.rs lines 43-124: the vertices are enumerated; tight sets, facets,
\* 2-faces, 1-faces, the two dedups, and the return
EnumerateFaces ==
  /\ out4 = Pending("running") /\ pos4 = <<>>
  /\ \E verts \in {dedup_points_in_place(acc4)} :
       \E faces2 \in IterationOrders(Faces2(p4.h, verts)),
          faces1 \in IterationOrders1(Faces1(p4.h, verts)) :
         out4' = [verts |-> verts,
                  faces1 |-> dedup_faces(faces1),
                  faces2 |-> dedup_faces(faces2),
                  facets |-> Facets3(p4.h, verts)]
  /\ UNCHANGED <<polyVars, dfsVars, randVars, p4, pos4, acc4>>

NextFaces == HToVerticesStep \/ EnumerateFaces

SpecFaces == InitFaces /\ [][NextFaces]_vars

FacesReturned == "faces2" \in DOMAIN out4

VertexSet(f) == {f.vertices[i] : i \in 1..Len(f.vertices)}

\* C24: every 2-face returned by enumerate_faces_from_h has at least three
\* vertices that are not on one line; two facets that meet only in an edge or
\* a vertex give no 2-face record.
C24_Faces2HaveThreeVertices ==
  FacesReturned =>
    \A k \in 1..Len(out4.faces2) :
      /\ Len(out4.faces2[k].vertices) >= 3
      /\ PlaneBasisExists(out4.faces2[k].vertices)

\* C27: no two 1-face records and no two 2-face records returned by
\* enumerate_faces_from_h have the same set of vertices.
C27_NoDuplicateFaces ==
  FacesReturned =>
    /\ \A i, j \in 1..Len(out4.faces1) :
         i # j => VertexSet(out4.faces1[i]) # VertexSet(out4.faces1[j])
    /\ \A i, j \in 1..Len(out4.faces2) :
         i # j => VertexSet(out4.faces2[i]) # VertexSet(out4.faces2[j])

\* a polytope every vertex of which lies on exactly four facets
SimplePolytope ==
  \A i \in 1..Len(out4.verts) : Cardinality(TightSet(p4.h, out4.verts[i])) = 4

\* on a simple polytope both sentences hold
SimplePolytopeFacesAreProper ==
  (FacesReturned /\ SimplePolytope) =>
    /\ \A k \in 1..Len(out4.faces2) :
         /\ Len(out4.faces2[k].vertices) >= 3
         /\ PlaneBasisExists(out4.faces2[k].vertices)
    /\ \A i, j \in 1..Len(out4.faces1) :
         i # j => VertexSet(out4.faces1[i]) # VertexSet(out4.faces1[j])
    /\ \A i, j \in 1..Len(out4.faces2) :
         i # j => VertexSet(out4.faces2[i]) # VertexSet(out4.faces2[j])

\* the faces of the hypercube: 16 vertices, 32 edges, 24 squares, 8 cubes
HypercubeFaceCounts ==
  (FacesReturned /\ p4 = hypercube) =>
    /\ Len(out4.verts) = 16 /\ Len(out4.faces1) = 32
    /\ Len(out4.faces2) = 24 /\ Len(out4.facets) = 8

\* the records of the cross polytope: 8 vertices and 16 facets, but 96
\* 1-face records for its 24 edges and 80 2-face records for its 32 triangles
CrossPolytopeFaceCounts ==
  (FacesReturned /\ p4 = cross_polytope_l1) =>
    /\ Len(out4.verts) = 8 /\ Len(out4.facets) = 16
    /\ Len(out4.faces1) = 96
    /\ Cardinality({VertexSet(out4.faces1[k]) : k \in 1..96}) = 24
    /\ Len(out4.faces2) = 80
    /\ Cardinality({k \in 1..80 : Len(out4.faces2[k].vertices) = 3}) = 32
    /\ Cardinality({k \in 1..80 : Len(out4.faces2[k].vertices) = 2}) = 48

\* the ridge nodes build_graph makes of the 2-faces returned have three or
\* more vertices each (build.rs lines 27-49)
RidgeNodesHaveThreeVertices ==
  FacesReturned =>
    LET ridges == RidgeLoop(p4.h, out4.faces2, 1, <<>>)
    IN \A r \in 1..Len(ridges) :
         \A k \in 1..Len(out4.faces2) :
           out4.faces2[k].facets = ridges[r].facets =>
             Len(out4.faces2[k].vertices) >= 3

-----------------------------------------------------------------------------
(* Specification SpecCache: the two caches of a Poly4 under                *)
(* intersect_halfspace, ensure_halfspaces_from_v and                       *)
(* ensure_vertices_from_h.  acc4 is the Poly4 as constructed and the       *)
(* methods called since (history), out4 the latest call with the Poly4     *)
(* it was made on (history), pos4 the number of calls.                     *)

\* types.rs lines 154-163
intersect_halfspace(p, hs) ==
  LET hn == normalized(hs)
  IN [h |-> IF hn.some THEN Append(p.h, hn.val) ELSE p.h, v |-> <<>>]

\* types.rs lines 165-174
ensure_vertices_from_h(p) ==
  IF p.v # <<>> THEN p ELSE [p EXCEPT !.v = h_to_vertices(p.h)]

\* number of method calls on one Poly4
MaxCalls == 3

\* a vertex list with the origin as one more point
WithCentre(p) == from_v(Append(p.v, IntPoint(Zero4)))

\* the hypercube with both caches filled
BothCaches == ensure_vertices_from_h(hypercube)

CacheInputs ==
  {CornerSimplex, WithCentre(CornerSimplex), orthogonal_simplex(1, 2, 1, 2),
   WithCentre(orthogonal_simplex(1, 2, 1, 2)), hypercube, StandardSimplex,
   BothCaches}

\* half-spaces handed to intersect_halfspace: x1 <= 0, x1 <= 1/2, x4 >= 0
Cuts4 ==
  {Hs4(<<1, 0, 0, 0>>, 0), Hs4(<<2, 0, 0, 0>>, 1), Hs4(<<0, 0, 0, -1>>, 0)}

InitCache ==
  /\ poly = <<>> /\ ret = NoRet /\ last = NoOp
  /\ IdleDfs
  /\ IdleRand
  /\ p4 \in CacheInputs
  /\ pos4 = 0
  /\ acc4 = [given |-> p4, calls |-> <<>>]
  /\ out4 = [call |-> "new"]

IntersectHalfspace ==
  /\ pos4 < MaxCalls
  /\ \E hs \in Cuts4 :
       /\ p4' = intersect_halfspace(p4, hs)
       /\ out4' = [call |-> "intersect_halfspace", before |-> p4, hs |-> hs]
  /\ pos4' = pos4 + 1
  /\ acc4' = [acc4 EXCEPT !.calls = Append(@, "intersect_halfspace")]
  /\ UNCHANGED <<polyVars, dfsVars, randVars>>

EnsureHalfspaces ==
  /\ pos4 < MaxCalls
  /\ p4' = ensure_halfspaces_from_v(p4)
  /\ out4' = [call |-> "ensure_halfspaces_from_v", before |-> p4]
  /\ pos4' = pos4 + 1
  /\ acc4' = [acc4 EXCEPT !.calls = Append(@, "ensure_halfspaces_from_v")]
  /\ UNCHANGED <<polyVars, dfsVars, randVars>>

EnsureVertices ==
  /\ pos4 < MaxCalls
  /\ p4' = ensure_vertices_from_h(p4)
  /\ out4' = [call |-> "ensure_vertices_from_h", before |-> p4]
  /\ pos4' = pos4 + 1
  /\ acc4' = [acc4 EXCEPT !.calls = Append(@, "ensure_vertices_from_h")]
  /\ UNCHANGED <<polyVars, dfsVars, randVars>>

NextCache == IntersectHalfspace \/ EnsureHalfspaces \/ EnsureVertices

SpecCache == InitCache /\ [][NextCache]_vars

PointSet(vs) == {vs[i] : i \in 1..Len(vs)}

Without(vs, i) == SubSeq(vs, 1, i - 1) \o SubSeq(vs, i + 1, Len(vs))

\* the points of the list that are vertices of its convex hull: those
\* outside the hull of the others
HullVertices(vs) ==
  {vs[i] : i \in {k \in 1..Len(vs) :
                    \E f \in HullFacets(Without(vs, k)) : ~satisfies(f, vs[k])}}

\* the rand4 sequence: from_v, ensure_halfspaces_from_v, ensure_vertices_from_h
ReducedFromV ==
  /\ acc4.given.h = <<>>
  /\ acc4.calls = <<"ensure_halfspaces_from_v", "ensure_vertices_from_h">>

\* C25: after from_v, ensure_halfspaces_from_v and ensure_vertices_from_h
\* the vertex cache holds the vertices of the convex hull of the points given
\* and no other point.
C25_OnlyHullVerticesKept ==
  ReducedFromV => PointSet(p4.v) = HullVertices(acc4.given.v)

\* what the sequence does: the vertex cache is the list given
ReducedFromVKeepsEveryPoint ==
  ReducedFromV => p4.v = acc4.given.v

\* points the polytopes are compared on: the lattice {-1, 0, 1, 2}^4 halved
TestPoints ==
  {Point4(<<a, b, c, d>>, 2) : a, b, c, d \in {-1, 0, 1, 2}}

\* x is a point of the polytope the Poly4 holds: of its half-spaces when it
\* has any, else of the convex hull of its vertices
InPoly4(p, facets, x) ==
  IF p.h # <<>> THEN \A i \in 1..Len(p.h) : satisfies(p.h[i], x)
  ELSE \A f \in facets : satisfies(f, x)

\* C26: intersect_halfspace(hs) leaves the Poly4 holding the polytope it held
\* before intersected with hs, whichever caches were filled.
C26_IntersectKeepsThePolytope ==
  out4.call = "intersect_halfspace" =>
    LET facets == IF out4.before.h = <<>> THEN HullFacets(out4.before.v) ELSE {}
    IN \A x \in TestPoints :
         InPoly4(p4, {}, x)
           <=> (InPoly4(out4.before, facets, x) /\ satisfies(out4.hs, x))

\* the same when the half-space cache was filled before the call
IntersectKeepsHalfspaces ==
  (out4.call = "intersect_halfspace" /\ out4.before.h # <<>>) =>
    /\ p4.v = <<>>
    /\ \A i \in 1..Len(out4.before.h) : p4.h[i] = out4.before.h[i]
    /\ \A x \in TestPoints :
         InPoly4(p4, {}, x)
           <=> (InPoly4(out4.before, {}, x) /\ satisfies(out4.hs, x))

\* a vertex cache filled after intersect_halfspace is the vertex list of the
\* half-spaces
VerticesRecomputedAfterIntersect ==
  (p4.v # <<>> /\ \E i \in 1..Len(acc4.calls) : acc4.calls[i] = "intersect_halfspace")
    => p4.v = h_to_vertices(p4.h)

-----------------------------------------------------------------------------
(* Specification SpecEdges: the edge loop of build_graph.  acc4 is the     *)
(* list of ridges, pos4 the position <<f, a, b>> of the three nested       *)
(* loops, out4 the edges pushed so far.                                    *)

\* maps.rs lines 37-40: v_F = J n_F
reeb_on_facets(hs) == [f \in 1..Len(hs) |-> JTimes(hs[f].n)]

\* build.rs lines 53-60
other_facet(r, f) == IF r.facets[1] = f THEN r.facets[2] ELSE r.facets[1]

\* a mutation of by_facet: every ridge is listed under every facet
AllRidges(ridges, f) == [r \in 1..Len(ridges) |-> r]

\* build.rs lines 46-47: the ridges pushed onto by_facet[f], in ridge order
by_facet(ridges, f) ==
  SelectSeq([r \in 1..Len(ridges) |-> r],
            LAMBDA r : ridges[r].facets[1] = f \/ ridges[r].facets[2] = f)

\* build.rs lines 82-84: d_j = n_Hj . v
forward_denominator(hs, ridges, f, rj) ==
  Dot4(hs[other_facet(ridges[rj], f)].n, reeb_on_facets(hs)[f])

\* build.rs lines 119-136: d_j times the matrix of psi_ij,
\* U_j (d_j I - v n_Hj^T) U_i^T, with the chart rows at their integer
\* lengths; its determinant has the sign of det(map_ij.m)
ScaledMap(hs, ridges, f, ri, rj) ==
  LET v == reeb_on_facets(hs)[f]
      n == hs[other_facet(ridges[rj], f)].n
      d == Dot4(n, v)
      ui == ridges[ri].chart_u
      uj == ridges[rj].chart_u
      col(k) == Sub4(Scale4(d, ui[k]), Scale4(Dot4(n, ui[k]), v))
  IN <<Dot4(uj[1], col(1)), Dot4(uj[1], col(2)),
       Dot4(uj[2], col(1)), Dot4(uj[2], col(2))>>

\* build.rs line 137: the sign of map_ij.m.determinant()
det_map(hs, ridges, f, ri, rj) ==
  LET m == ScaledMap(hs, ridges, f, ri, rj)
  IN Sgn(m[1] * m[4] - m[2] * m[3])

\* the loops at lines 67-76 move on: the next rj, else the next ri, else the
\* next facet
Advance(pos, len) ==
  IF pos[3] < len THEN <<pos[1], pos[2], pos[3] + 1>>
  ELSE IF pos[2] < len THEN <<pos[1], pos[2] + 1, 1>>
  ELSE <<pos[1] + 1, 1, 1>>

\* polytopes the graph is built for: those of RidgePolytopes and a cone with
\* one vertex, which has no 2-face
EdgePolytopes == RidgePolytopes \cup {PointedCone}

InitEdges ==
  /\ poly = <<>> /\ ret = NoRet /\ last = NoOp
  /\ IdleDfs
  /\ IdleRand
  /\ p4 \in EdgePolytopes
  /\ pos4 = <<>>
  /\ acc4 = <<>>
  /\ out4 = Pending("faces")

\* build.rs lines 19-66: the faces are enumerated and the ridges built
BuildRidgeNodes ==
  /\ out4 = Pending("faces")
  /\ \E faces2 \in IterationOrders(Faces2(p4.h, h_to_vertices(p4.h))) :
       \E ridges \in {RidgeLoop(p4.h, faces2, 1, <<>>)} :
         /\ acc4' = ridges
         /\ out4' = [edges |-> <<>>, adj |-> [r \in 1..Len(ridges) |-> <<>>],
                     done |-> FALSE]
  /\ pos4' = <<1, 1, 1>>
  /\ UNCHANGED <<polyVars, dfsVars, randVars, p4>>

InEdgeLoop == pos4 # <<>> /\ pos4[1] <= Len(p4.h) /\ ~out4.done

RidgesInF == by_facet(acc4, pos4[1])

AtPair == InEdgeLoop /\ Len(RidgesInF) >= 2

PairFrom == RidgesInF[pos4[2]]

PairTo == RidgesInF[pos4[3]]

NoEdge ==
  /\ pos4' = Advance(pos4, Len(RidgesInF))
  /\ UNCHANGED <<polyVars, dfsVars, randVars, p4, acc4, out4>>

\* lines 69-71: fewer than two ridges on the facet
FacetSkipped ==
  /\ InEdgeLoop /\ Len(RidgesInF) < 2
  /\ pos4' = <<pos4[1] + 1, 1, 1>>
  /\ UNCHANGED <<polyVars, dfsVars, randVars, p4, acc4, out4>>

\* lines 76-78
PairSame == AtPair /\ PairFrom = PairTo /\ NoEdge

Forward ==
  /\ AtPair /\ PairFrom # PairTo
  /\ forward_denominator(p4.h, acc4, pos4[1], PairTo) > eps_tau

\* lines 84-87
PairNotForward ==
  /\ AtPair /\ PairFrom # PairTo
  /\ forward_denominator(p4.h, acc4, pos4[1], PairTo) <= eps_tau
  /\ NoEdge

\* lines 88-119: the domain is reported Empty.  The domain polygon is not
\* computed here; both outcomes of the test are taken.
PairEmptyDomain == Forward /\ NoEdge

\* lines 137-171: the determinant is zero or negative
PairBadDet ==
  /\ Forward
  /\ det_map(p4.h, acc4, pos4[1], PairFrom, PairTo) <= 0
  /\ NoEdge

\* lines 201-213: the edge is pushed and entered in adj[ri]
PairEdge ==
  /\ Forward
  /\ det_map(p4.h, acc4, pos4[1], PairFrom, PairTo) > 0
  /\ out4' = [out4 EXCEPT
                !.edges = Append(@, [from |-> PairFrom, to |-> PairTo,
                                     facet |-> pos4[1]]),
                !.adj[PairFrom] = Append(@, Len(out4.edges) + 1)]
  /\ pos4' = Advance(pos4, Len(RidgesInF))
  /\ UNCHANGED <<polyVars, dfsVars, randVars, p4, acc4>>

\* the orders of the entries of a list
RECURSIVE PermsOf(_)
PermsOf(S) ==
  IF S = {} THEN {<<>>}
  ELSE UNION {{<<x>> \o q : q \in PermsOf(S \ {x})} : x \in S}

\* lines 217-225: every adjacency list is sorted by lb_action.  The bounds
\* are not computed here, so a list may come out in any order.
RECURSIVE SortedLists(_, _)
SortedLists(adj, r) ==
  IF r > Len(adj) THEN {<<>>}
  ELSE {<<q>> \o rest : q \in PermsOf({adj[r][k] : k \in 1..Len(adj[r])}),
                        rest \in SortedLists(adj, r + 1)}

\* lines 217-232: the lists are sorted and the graph returned
GraphDone ==
  /\ pos4 # <<>> /\ pos4[1] > Len(p4.h) /\ ~out4.done
  /\ \E sorted \in SortedLists(out4.adj, 1) :
       out4' = [out4 EXCEPT !.adj = sorted, !.done = TRUE]
  /\ UNCHANGED <<polyVars, dfsVars, randVars, p4, pos4, acc4>>

NextEdges ==
  \/ BuildRidgeNodes \/ FacetSkipped \/ PairSame \/ PairNotForward
  \/ PairEmptyDomain \/ PairBadDet \/ PairEdge \/ GraphDone

SpecEdges == InitEdges /\ [][NextEdges]_vars

HasFacet(r, f) == acc4[r].facets[1] = f \/ acc4[r].facets[2] = f

\* C28: in every graph build_graph makes, the facet label of an edge is one
\* of the two facets of the ridge the edge leaves and one of the two facets of
\* the ridge it enters, and these two ridges differ.
C28_EdgeFacetOnBothRidges ==
  "edges" \in DOMAIN out4 =>
    \A k \in 1..Len(out4.edges) :
      LET e == out4.edges[k]
      IN /\ e.from # e.to
         /\ HasFacet(e.from, e.facet)
         /\ HasFacet(e.to, e.facet)

\* build_graph has returned a graph of the simplex with seven edges
C28_Witness ==
  /\ "edges" \in DOMAIN out4 /\ out4.done
  /\ p4 = StandardSimplex
  /\ Len(out4.edges) = 7

\* every edge is listed once, under the ridge it leaves
AdjacencyListsEdges ==
  ("edges" \in DOMAIN out4 /\ out4.done) =>
    \A k \in 1..Len(out4.edges) :
      \A r \in 1..Len(out4.adj) :
        (\E i \in 1..Len(out4.adj[r]) : out4.adj[r][i] = k)
          <=> out4.edges[k].from = r

====
